---- MODULE Spec2Model ----
(***************************************************************************)
(* cortex-mcp: the cortex_analyze_observable tool (src/tools/bulk.ts) and  *)
(* the CortexClient calls it makes.  One invocation of the handler is a    *)
(* process whose position is pc; the Cortex server is the environment that *)
(* settles every client call, in any order, with any outcome.              *)
(*                                                                         *)
(* Spec         the bulk tool, from the arguments' schema to the response  *)
(* SpecClient   the server's start (config.ts) and CortexClient.request    *)
(*              with its abort timer, on a clock                           *)
(* SpecTools    the analyzer, job and responder tools                      *)
(* SpecAllTools all twelve tools                                           *)
(* SpecNoted    successive invocations of the bulk tool, with a record of  *)
(*              the invocation that returned last                          *)
(* SpecLive     the bulk tool when every client call settles in the end    *)
(***************************************************************************)
EXTENDS Naturals, Integers, Sequences, FiniteSets, TLC

\* Largest analyzer list the Cortex server returns in the model.
MaxAnalyzers == 3

(***************************************************************************)
(* Data: analyzers, requests, client-call outcomes                         *)
(***************************************************************************)

\* Analyzer records (types.ts Analyzer: id, name, dataTypeList and the
\* optional maxTlp, maxPap), the three of the tests' mockAnalyzers and a fourth
\* that also supports "ip".
Catalogue ==
  { [id |-> "VirusTotal_GetReport_3_1", name |-> "VirusTotal_GetReport",
     dataTypeList |-> <<"hash", "ip", "domain", "url">>],
    [id |-> "AbuseIPDB_1_0", name |-> "AbuseIPDB",
     dataTypeList |-> <<"ip">>, maxTlp |-> 1, maxPap |-> 1],
    [id |-> "URLhaus_2_0", name |-> "URLhaus",
     dataTypeList |-> <<"url", "domain">>],
    [id |-> "MaxMind_GeoIP_4_0", name |-> "MaxMind_GeoIP",
     dataTypeList |-> <<"ip">>] }

RECURSIVE SeqsUpTo(_, _)
\* All sequences of at most n distinct elements of S.
SeqsUpTo(S, n) ==
  IF n = 0 THEN {<<>>}
  ELSE LET shorter == SeqsUpTo(S, n - 1)
       IN  shorter \cup
           { Append(s, x) : s \in { t \in shorter : Len(t) = n - 1 },
                            x \in S }

\* The analyzer lists GET /analyzer can return: ids are unique.
Directories ==
  { d \in SeqsUpTo(Catalogue, MaxAnalyzers) :
      \A i, j \in DOMAIN d : d[i].id = d[j].id => i = j }

\* A JSON value of the tool call's arguments object, or its absence.
\* Fraction(n) stands for the non-integer n + 0.5.
Absent == [type |-> "undefined"]
Number(n) == [type |-> "number", value |-> n, integer |-> TRUE]
Fraction(n) == [type |-> "number", value |-> n, integer |-> FALSE]
Text(t) == [type |-> "string", value |-> t]

Arg(dataType, tlp, pap, timeout) ==
  [dataType |-> Text(dataType), data |-> Text("8.8.8.8"),
   tlp |-> tlp, pap |-> pap, timeout |-> timeout]

\* The arguments objects a caller sends to cortex_analyze_observable
Arguments ==
  { Arg("ip", Number(2), Number(2), Number(60)),
    Arg("registry", Number(2), Number(2), Number(60)),
    Arg("ip", Absent, Absent, Absent),
    Arg("hash", Number(0), Number(3), Number(3600)),
    Arg("hash", Number(3), Number(0), Number(1)),
    Arg("IP", Number(2), Number(2), Number(60)),
    Arg("ip", Number(4), Number(2), Number(60)),
    Arg("ip", Number(-1), Absent, Absent),
    Arg("ip", Number(2), Number(4), Number(60)),
    Arg("ip", Absent, Number(-1), Number(60)),
    Arg("ip", Number(2), Number(2), Number(0)),
    Arg("ip", Absent, Absent, Number(3601)),
    Arg("ip", Fraction(1), Number(2), Number(60)),
    Arg("ip", Number(2), Number(2), Text("60")),
    [Arg("ip", Number(2), Number(2), Number(60)) EXCEPT !.data = Absent],
    [Arg("ip", Number(2), Number(2), Number(60)) EXCEPT !.dataType = Number(4)] }

Valid(v) == [ok |-> TRUE, value |-> v]
Invalid == [ok |-> FALSE]

\* z.string()
ZString(v) == IF v.type = "string" THEN Valid(v.value) ELSE Invalid

\* Faulty variant of ZIntDefault: the range is not enforced.
ZIntAnyDefault(v, lo, hi, d) ==
  IF v.type = "undefined" THEN Valid(d)
  ELSE IF v.type = "number" /\ v.integer THEN Valid(v.value)
  ELSE Invalid

\* z.number().int().min(lo).max(hi).default(d)
ZIntDefault(v, lo, hi, d) ==
  IF v.type = "undefined" THEN Valid(d)
  ELSE IF v.type = "number" /\ v.integer /\ v.value >= lo /\ v.value <= hi
  THEN Valid(v.value)
  ELSE Invalid

\* The tool's input schema applied to an arguments object (bulk.ts 13-39):
\* the parsed arguments, or the names of the fields that fail.
ParseArguments(a) ==
  LET fields == [dataType |-> ZString(a.dataType),
                 data |-> ZString(a.data),
                 tlp |-> ZIntDefault(a.tlp, 0, 3, 2),
                 pap |-> ZIntDefault(a.pap, 0, 3, 2),
                 timeout |-> ZIntDefault(a.timeout, 1, 3600, 300)]
      issues == {f \in DOMAIN fields : ~fields[f].ok}
  IN IF issues = {}
     THEN [success |-> TRUE, data |-> [f \in DOMAIN fields |-> fields[f].value]]
     ELSE [success |-> FALSE, issues |-> issues]

\* The tool's arguments after schema defaults (bulk.ts 13-39).
Requests ==
  { ParseArguments(a).data : a \in {b \in Arguments : ParseArguments(b).success} }

\* Taxonomy.level (types.ts 38).
Levels == {"info", "safe", "suspicious", "malicious"}

Tax(level, value) ==
  [level |-> level, namespace |-> "VT", predicate |-> "GetReport", value |-> value]

\* JobReport payloads of GET /job/<id>/waitreport (types.ts 48-55): report,
\* summary and taxonomies are each optional.
ReportBodies ==
  { [status |-> "Success",
     report |-> [summary |-> [taxonomies |-> <<Tax("malicious", "5/87")>>]]],
    [status |-> "Success",
     report |-> [summary |-> [taxonomies |-> <<Tax("suspicious", "75%")>>]]],
    [status |-> "Success",
     report |-> [summary |-> [taxonomies |->
                   <<Tax("info", "0/87"), Tax("malicious", "5/87")>>]]],
    [status |-> "Success",
     report |-> [summary |-> [taxonomies |->
                   <<Tax("safe", "0/87"), Tax("safe", "0/10")>>]]],
    [status |-> "Success", report |-> [summary |-> [taxonomies |-> <<>>]]],
    [status |-> "Success", report |-> [full |-> "raw"]],
    [status |-> "Failure"] }

\* Error objects a client call rejects with (client.ts 55, 61).
RunErrors ==
  { [message |-> "Cortex API error: Rate limit exceeded"],
    [message |-> "Cortex API timeout after 30000ms"] }

WaitErrors ==
  { [message |-> "Cortex API timeout after 30000ms"],
    [message |-> "Cortex API error: Resource not found"] }

ListErrors == { [message |-> "Cortex API error: Invalid API key or unauthorized access"] }

(***************************************************************************)
(* Configuration (config.ts getConfig) and the HTTP layer (client.ts)      *)
(***************************************************************************)

\* An environment variable is unset or holds a string; a URL is spelt as a
\* sequence of pieces so that trailing "/" pieces can be told apart.
Unset == [set |-> FALSE]
Str(v) == [set |-> TRUE, value |-> v]

BaseUrl == "https://cortex.example.com:9001"

\* The test suite's configuration as an environment (tests/client.test.ts)
DefaultEnv ==
  [CORTEX_URL |-> Str(<<BaseUrl>>), CORTEX_API_KEY |-> Str(<<"test-api-key-123">>),
   CORTEX_VERIFY_SSL |-> Unset, CORTEX_TIMEOUT |-> Unset]

\* process.env as the server finds it at start
Envs ==
  { DefaultEnv,
    [DefaultEnv EXCEPT !.CORTEX_URL = Str(<<BaseUrl, "/", "/">>),
                       !.CORTEX_VERIFY_SSL = Str(<<"false">>),
                       !.CORTEX_TIMEOUT = Str(<<"1">>)],
    [DefaultEnv EXCEPT !.CORTEX_VERIFY_SSL = Str(<<"true">>),
                       !.CORTEX_TIMEOUT = Str(<<"30">>)],
    [DefaultEnv EXCEPT !.CORTEX_VERIFY_SSL = Str(<<"false">>)],
    [DefaultEnv EXCEPT !.CORTEX_VERIFY_SSL = Str(<<"FALSE">>),
                       !.CORTEX_TIMEOUT = Str(<<"1">>)],
    [DefaultEnv EXCEPT !.CORTEX_URL = Unset],
    [DefaultEnv EXCEPT !.CORTEX_URL = Str(<<>>)],
    [DefaultEnv EXCEPT !.CORTEX_URL = Str(<<"/", "/">>),
                       !.CORTEX_TIMEOUT = Str(<<"0">>)],
    [DefaultEnv EXCEPT !.CORTEX_TIMEOUT = Str(<<"abc">>)],
    [DefaultEnv EXCEPT !.CORTEX_API_KEY = Unset],
    [DefaultEnv EXCEPT !.CORTEX_API_KEY = Str(<<>>),
                       !.CORTEX_VERIFY_SSL = Str(<<"false">>)] }

\* !value of a string | undefined: unset or the empty string
Falsy(v) == ~v.set \/ v.value = <<>>

\* Faulty variant of StripTrailingSlashes: one trailing slash is removed.
StripOneTrailingSlash(url) ==
  IF url # <<>> /\ url[Len(url)] = "/" THEN SubSeq(url, 1, Len(url) - 1) ELSE url

RECURSIVE StripTrailingSlashes(_)
\* url.replace(/\/+$/, "")
StripTrailingSlashes(url) ==
  IF url # <<>> /\ url[Len(url)] = "/"
  THEN StripTrailingSlashes(SubSeq(url, 1, Len(url) - 1))
  ELSE url

\* A JavaScript number: an integer of the model, or NaN
Num(n) == [nan |-> FALSE, value |-> n]
NaN == [nan |-> TRUE]

\* parseInt(text, 10) of the texts of the model: NaN when the text does not
\* start with a number
ParseInt(text) ==
  CASE text = <<"30">> -> Num(30)
    [] text = <<"1">> -> Num(1)
    [] text = <<"60">> -> Num(60)
    [] text = <<"0">> -> Num(0)
    [] OTHER -> NaN

\* a * k
Times(a, k) == IF a.nan THEN NaN ELSE Num(a.value * k)

\* `${a}`
NumberText(a) == IF a.nan THEN "NaN" ELSE ToString(a.value)

\* getConfig: the configuration, or the error it throws
GetConfig(e) ==
  IF Falsy(e.CORTEX_URL)
  THEN [threw |-> TRUE, message |-> "CORTEX_URL environment variable is required"]
  ELSE IF Falsy(e.CORTEX_API_KEY)
  THEN [threw |-> TRUE, message |-> "CORTEX_API_KEY environment variable is required"]
  ELSE [threw |-> FALSE,
        url |-> StripTrailingSlashes(e.CORTEX_URL.value),
        apiKey |-> e.CORTEX_API_KEY.value,
        verifySsl |-> ~(e.CORTEX_VERIFY_SSL.set /\ e.CORTEX_VERIFY_SSL.value = <<"false">>),
        timeout |-> Times(ParseInt(IF e.CORTEX_TIMEOUT.set THEN e.CORTEX_TIMEOUT.value
                                   ELSE <<"30">>), 1000)]

\* new CortexClient(config): baseUrl, headers, timeout (client.ts 19-26)
NewClient(cfg) ==
  [baseUrl |-> cfg.url \o <<"/api">>,
   headers |-> [Authorization |-> <<"Bearer ">> \o cfg.apiKey,
                ContentType |-> "application/json"],
   timeout |-> cfg.timeout]

\* The client methods as the paths and options they pass to request
\* (client.ts 71-143); waitAndGetReport puts timeoutSeconds in the query only.
ClientCalls ==
  { [method |-> "listAnalyzers", path |-> <<"/analyzer">>, verb |-> "GET", atMost |-> 0],
    [method |-> "runAnalyzer", path |-> <<"/analyzer/", "AbuseIPDB_1_0", "/run">>,
     verb |-> "POST", atMost |-> 0] }
  \cup
  { [method |-> "waitAndGetReport",
     path |-> <<"/job/", "job_1", "/waitreport?atMost=", seconds, "second">>,
     verb |-> "GET", atMost |-> seconds] : seconds \in {1, 60} }

\* The options request hands to fetch (client.ts 37-41): nothing in them
\* depends on config.verifySsl, so the runtime verifies certificates.
FetchOptions(cl, cfg, call) ==
  [url |-> cl.baseUrl \o call.path,
   method |-> call.verb,
   headers |-> cl.headers,
   signal |-> "controller.signal",
   verifiesCertificate |-> TRUE]

\* HTTP responses of the Cortex server: status, statusText, body text
HttpResponses ==
  [status : {200, 401, 403, 404, 429, 500, 502},
   statusText : {"Status Text"},
   body : {"", "details"}]

\* Response.ok
Ok(response) == response.status >= 200 /\ response.status <= 299

\* Faulty variant of StatusMessage: the fixed messages are not used.
StatusMessageGeneric(response) ==
  <<"HTTP ", ToString(response.status), ": ", response.statusText>>

\* client.ts 45-54: the fixed messages, or HTTP <status>: <statusText>
StatusMessage(response) ==
  CASE response.status = 401 -> <<"Invalid API key or unauthorized access">>
    [] response.status = 403 -> <<"Forbidden - insufficient permissions">>
    [] response.status = 404 -> <<"Resource not found">>
    [] response.status = 429 -> <<"Rate limit exceeded">>
    [] response.status = 500 -> <<"Cortex internal server error">>
    [] OTHER -> <<"HTTP ", ToString(response.status), ": ", response.statusText>>

\* client.ts 55: `Cortex API error: ${msg}${body ? ` - ${body}` : ""}`
ApiError(response, body) ==
  [name |-> "Error",
   message |-> <<"Cortex API error: ">> \o StatusMessage(response)
                 \o (IF body # "" THEN <<" - ", body>> ELSE <<>>)]

\* client.ts 61: `Cortex API timeout after ${this.timeout}ms`
TimeoutError(cl) ==
  [name |-> "Error", message |-> <<"Cortex API timeout after ", NumberText(cl.timeout), "ms">>]

\* The delay setTimeout arms for (client.ts 34): NaN, a delay below 1 and a
\* delay above 2147483647 are run as 1.
TimerDelay(ms) ==
  IF ms.nan THEN 1
  ELSE IF ms.value < 1 \/ ms.value > 2147483647 THEN 1
  ELSE ms.value

Pending == [status |-> "pending"]
Fulfilled(v) == [status |-> "fulfilled", value |-> v]
Rejected(e) == [status |-> "rejected", reason |-> e]

VARIABLES
  directory,    \* the analyzers the Cortex server currently has enabled
  pc,           \* the handler's position
  req,          \* the arguments of the invocation
  calls,        \* the client calls issued so far, each with its outcome
  applicable,   \* bulk.ts 44
  submissions,  \* bulk.ts 60: one slot per applicable analyzer
  submitted,    \* bulk.ts 72
  failed,       \* bulk.ts 79
  reports,      \* bulk.ts 89: one slot per submitted job
  response,     \* what the handler returned
  outOfOrder,   \* history: some call settled before an earlier call of its stage
  earlier,      \* history: the invocation that returned last, and whether the
                \* directory has changed since
  args,         \* history: the arguments object of the invocation, as sent
  env,          \* process.env
  boot,         \* the server's start: "Starting", "Ready" or "Failed"
  config,       \* what getConfig returned or threw
  client,       \* the CortexClient built from the configuration
  now,          \* the clock, in milliseconds
  requests      \* the calls of CortexClient.request, each with its progress

clientVars == <<env, boot, config, client, now, requests>>

vars == <<directory, pc, req, calls, applicable, submissions, submitted,
          failed, reports, response, outOfOrder, earlier, args, clientVars>>

NoRequest == [dataType |-> "none"]
NoArguments == [sent |-> FALSE]
NoEarlier == [returned |-> FALSE]
NoResponse == [returned |-> FALSE]

\* No invocation of the bulk tool is under way.
HandlerIdle ==
  /\ pc = "Idle"
  /\ req = NoRequest
  /\ calls = <<>>
  /\ applicable = <<>>
  /\ submissions = <<>>
  /\ submitted = <<>>
  /\ failed = <<>>
  /\ reports = <<>>
  /\ response = NoResponse
  /\ outOfOrder = FALSE
  /\ earlier = NoEarlier
  /\ args = NoArguments

Init ==
  /\ directory \in Directories
  /\ HandlerIdle
  /\ env = DefaultEnv
  /\ boot = "Ready"
  /\ config = GetConfig(DefaultEnv)
  /\ client = NewClient(GetConfig(DefaultEnv))
  /\ now = 0
  /\ requests = <<>>

(***************************************************************************)
(* Pure parts of the handler                                               *)
(***************************************************************************)

\* Array.prototype.includes
Includes(list, x) == \E i \in DOMAIN list : list[i] = x

\* Faulty variant of Applicable: the data type is compared ignoring case.
ApplicableIgnoringCase(allAnalyzers, dataType) ==
  SelectSeq(allAnalyzers, LAMBDA a :
    \E k \in DOMAIN a.dataTypeList :
      a.dataTypeList[k] = (IF dataType = "IP" THEN "ip" ELSE dataType))

\* Faulty variant of Applicable: the list of an earlier call is filtered.
ApplicableCached(allAnalyzers, dataType) ==
  SelectSeq(<<CHOOSE c \in Catalogue : c.name = "VirusTotal_GetReport">>, LAMBDA a : \E k \in DOMAIN a.dataTypeList :
                                          a.dataTypeList[k] = dataType)

\* Faulty variant of Applicable: only the first declared data type is compared.
ApplicableByFirstType(allAnalyzers, dataType) ==
  SelectSeq(allAnalyzers, LAMBDA a : a.dataTypeList # <<>> /\ a.dataTypeList[1] = dataType)

\* bulk.ts 44-46: allAnalyzers.filter(a => a.dataTypeList.includes(dataType))
Applicable(allAnalyzers, dataType) ==
  SelectSeq(allAnalyzers, LAMBDA a : Includes(a.dataTypeList, dataType))

\* bulk.ts 85, 125, 166: reason instanceof Error ? reason.message : String(reason)
ErrorText(reason) == reason.message

\* bulk.ts 61-69: the async mapper of one applicable analyzer, once its
\* runAnalyzer call has settled with `outcome`.
SubmissionResult(analyzer, outcome) ==
  IF outcome.status = "fulfilled"
  THEN Fulfilled([analyzer |-> analyzer.name, jobId |-> outcome.value.id])
  ELSE Rejected(outcome.reason)

\* bulk.ts 90-93: the async mapper of one submitted job, once its
\* waitAndGetReport call has settled with `outcome`.
ReportResult(sub, outcome) ==
  IF outcome.status = "fulfilled"
  THEN Fulfilled([analyzer |-> sub.analyzer, report |-> outcome.value])
  ELSE Rejected(outcome.reason)

\* Faulty variant of SettleSlot: results are collected in the order they arrive.
SettleFirstPending(slots, i, result) ==
  LET free == CHOOSE j \in DOMAIN slots :
                /\ slots[j].status = "pending"
                /\ \A h \in 1..(j - 1) : slots[h].status # "pending"
  IN  [slots EXCEPT ![free] = result @@ [ref |-> free]]

\* Promise.allSettled (bulk.ts 60, 89): the result object of the promise at
\* position i goes to position i of the output array; ref is the identity of
\* that result object.
SettleSlot(slots, i, result) ==
  [slots EXCEPT ![i] = result @@ [ref |-> i]]

AllSettled(slots) == \A i \in DOMAIN slots : slots[i].status # "pending"

\* Array.prototype.filter by settled status
WithStatus(slots, status) == SelectSeq(slots, LAMBDA r : r.status = status)

\* Faulty variant of SubmittedOf: one rejected submission abandons the others.
SubmittedUnlessAnyRejected(subs) ==
  LET ok == WithStatus(subs, "fulfilled")
  IN  IF WithStatus(subs, "rejected") # <<>> THEN <<>>
      ELSE [k \in DOMAIN ok |-> ok[k].value]

\* bulk.ts 72-77
SubmittedOf(subs) ==
  LET ok == WithStatus(subs, "fulfilled")
  IN  [k \in DOMAIN ok |-> ok[k].value]

\* Faulty variant of FailedOf: only the first rejection is reported.
FailedOfFirstOnly(subs, appl) ==
  LET rej == WithStatus(subs, "rejected")
  IN  [i \in DOMAIN rej \cap {1} |->
         [analyzer |-> appl[i].name, error |-> ErrorText(rej[i].reason)]]

\* bulk.ts 79-86: i is the index in the filtered array of rejections
FailedOf(subs, appl) ==
  LET rej == WithStatus(subs, "rejected")
  IN  [i \in DOMAIN rej |->
         [analyzer |-> appl[i].name, error |-> ErrorText(rej[i].reason)]]

\* bulk.ts 107: report.report?.summary?.taxonomies ?? []
TaxonomiesOf(report) ==
  IF /\ "report" \in DOMAIN report
     /\ "summary" \in DOMAIN report.report
     /\ "taxonomies" \in DOMAIN report.report.summary
  THEN report.report.summary.taxonomies
  ELSE <<>>

\* Faulty variant of Render: the level is left out.
RenderWithoutLevel(t) == <<t.namespace, ":", t.predicate, " = ", t.value>>

\* bulk.ts 116: `[${t.level}] ${t.namespace}:${t.predicate} = ${t.value}`
Render(t) == <<"[", t.level, "] ", t.namespace, ":", t.predicate, " = ", t.value>>

\* Faulty variant of RenderError: the failure message is replaced by a fixed text.
RenderErrorGeneric(reason) == <<"Error: ", "analysis failed">>

\* bulk.ts 125: `Error: ${message}`
RenderError(reason) == <<"Error: ", ErrorText(reason)>>

\* Array.prototype.indexOf: the first position holding the same object
IndexOf(slots, result) ==
  IF \E j \in DOMAIN slots : slots[j].ref = result.ref
  THEN CHOOSE j \in DOMAIN slots :
         /\ slots[j].ref = result.ref
         /\ \A h \in 1..(j - 1) : slots[h].ref # result.ref
  ELSE 0

\* bulk.ts 122: submitted[index]?.analyzer ?? "unknown" (index is 1-based here)
AnalyzerAt(subm, index) ==
  IF index \in DOMAIN subm THEN subm[index].analyzer ELSE "unknown"

\* bulk.ts 105-128: the results entry pushed for one settled report
ResultEntry(result, reps, subm) ==
  IF result.status = "fulfilled"
  THEN LET taxonomies == TaxonomiesOf(result.value.report)
       IN  [analyzer |-> result.value.analyzer,
            status |-> result.value.report.status,
            taxonomies |-> [k \in DOMAIN taxonomies |-> Render(taxonomies[k])]]
  ELSE [analyzer |-> AnalyzerAt(subm, IndexOf(reps, result)),
        status |-> "Error",
        taxonomies |-> <<RenderError(result.reason)>>]

\* Faulty variant of ResultsOf: only the fulfilled reports get an entry.
ResultsOfFulfilledOnly(reps, subm) ==
  LET ok == WithStatus(reps, "fulfilled")
  IN  [i \in DOMAIN ok |-> ResultEntry(ok[i], reps, subm)]

\* bulk.ts 98-129: the loop pushes one entry per element of reports
ResultsOf(reps, subm) ==
  [i \in DOMAIN reps |-> ResultEntry(reps[i], reps, subm)]

RECURSIVE AllTaxonomiesOf(_)
\* bulk.ts 97, 105-110: the taxonomies of the fulfilled reports, in order
AllTaxonomiesOf(reps) ==
  IF reps = <<>> THEN <<>>
  ELSE LET result == Head(reps)
           mine == IF result.status = "fulfilled"
                   THEN LET taxonomies == TaxonomiesOf(result.value.report)
                        IN  [k \in DOMAIN taxonomies |->
                               taxonomies[k] @@ [analyzer |-> result.value.analyzer]]
                   ELSE <<>>
       IN  mine \o AllTaxonomiesOf(Tail(reps))

\* bulk.ts 133-138: allTaxonomies.filter(t => t.level === level).length
LevelCount(allTaxonomies, level) ==
  Len(SelectSeq(allTaxonomies, LAMBDA t : t.level = level))

\* Faulty variant of LevelCounts: the safe count filters on a copied level name.
LevelCountsCopied(allTaxonomies) ==
  [malicious |-> LevelCount(allTaxonomies, "malicious"),
   suspicious |-> LevelCount(allTaxonomies, "suspicious"),
   info |-> LevelCount(allTaxonomies, "info"),
   safe |-> LevelCount(allTaxonomies, "info")]

\* bulk.ts 132-139
LevelCounts(allTaxonomies) ==
  [malicious |-> LevelCount(allTaxonomies, "malicious"),
   suspicious |-> LevelCount(allTaxonomies, "suspicious"),
   info |-> LevelCount(allTaxonomies, "info"),
   safe |-> LevelCount(allTaxonomies, "safe")]

Undefined == [undefined |-> TRUE]

\* Faulty variant of SubmissionErrorsField: the list is reported even when empty.
SubmissionErrorsAlways(fld) == [list |-> fld]

\* bulk.ts 152-153: failed.length > 0 ? failed : undefined
SubmissionErrorsField(fld) == IF Len(fld) > 0 THEN [list |-> fld] ELSE Undefined

\* Faulty variant of ReportObject: analyzersRun counts the completed reports.
ReportObjectCountingCompleted(request, subm, fld, reps) ==
  [observable |-> [dataType |-> request.dataType, data |-> request.data],
   analyzersRun |-> Len(WithStatus(reps, "fulfilled")),
   analyzersFailed |-> Len(fld),
   summary |-> LevelCounts(AllTaxonomiesOf(reps)),
   results |-> ResultsOf(reps, subm),
   submissionErrors |-> SubmissionErrorsField(fld)]

\* bulk.ts 146-154: the object handed to JSON.stringify
ReportObject(request, subm, fld, reps) ==
  [observable |-> [dataType |-> request.dataType, data |-> request.data],
   analyzersRun |-> Len(subm),
   analyzersFailed |-> Len(fld),
   summary |-> LevelCounts(AllTaxonomiesOf(reps)),
   results |-> ResultsOf(reps, subm),
   submissionErrors |-> SubmissionErrorsField(fld)]

\* JSON.stringify (bulk.ts 145-157): a property whose value is undefined is
\* left out of the text; submissionErrors is the only one that can be.
JSONStringify(obj) ==
  LET keep == { k \in DOMAIN obj :
                  ~(k = "submissionErrors" /\ obj[k] = Undefined) }
  IN  [k \in keep |-> IF k = "submissionErrors" THEN obj[k].list ELSE obj[k]]

\* A JSON null payload: reading a property of it throws a TypeError.
Null == [null |-> TRUE]
IsNull(v) == "null" \in DOMAIN v

\* bulk.ts 106-107: report.report on a null report throws inside the loop,
\* outside both Promise.allSettled joins.
AggregationThrows(reps) ==
  \E i \in DOMAIN reps :
    reps[i].status = "fulfilled" /\ IsNull(reps[i].value.report)

TypeErrorOfNull == [message |-> "Cannot read properties of null (reading 'report')"]

\* bulk.ts 49-56
NoAnalyzersResponse(request) ==
  [returned |-> TRUE, isError |-> FALSE,
   text |-> [kind |-> "NoAnalyzers", dataType |-> request.dataType]]

\* bulk.ts 141-160
ReportResponse(request, subm, fld, reps) ==
  [returned |-> TRUE, isError |-> FALSE,
   text |-> [kind |-> "Report",
             json |-> JSONStringify(ReportObject(request, subm, fld, reps))]]

\* Faulty variant of ErrorResponse: the error flag is left out.
ErrorResponseUnflagged(error) ==
  [returned |-> TRUE, isError |-> FALSE,
   text |-> [kind |-> "Error", prefix |-> "Error analyzing observable: ",
             message |-> ErrorText(error)]]

\* bulk.ts 161-171: `Error analyzing observable: ${message}`, isError: true
ErrorResponse(error) ==
  [returned |-> TRUE, isError |-> TRUE,
   text |-> [kind |-> "Error", prefix |-> "Error analyzing observable: ",
             message |-> ErrorText(error)]]

\* The answer to a call whose arguments fail the schema registered with
\* server.tool (bulk.ts 10-39): the handler is not run.
InvalidArguments(issues) ==
  [returned |-> TRUE, isError |-> TRUE,
   text |-> [kind |-> "Error",
             prefix |-> "Invalid arguments for tool cortex_analyze_observable: ",
             message |-> issues]]

(***************************************************************************)
(* Client calls (client.ts 71-111), logged with their outcome              *)
(***************************************************************************)

\* client.listAnalyzers()
ListCall == [op |-> "listAnalyzers", slot |-> 0, outcome |-> Pending]

\* Faulty variant of RunCall: the levels are lowered to the analyzer's maxima.
RunCallWithinLevels(analyzer, i, request) ==
  [op |-> "runAnalyzer", slot |-> i, analyzerId |-> analyzer.id,
   body |-> [data |-> request.data, dataType |-> request.dataType,
             tlp |-> IF "maxTlp" \in DOMAIN analyzer /\ analyzer.maxTlp < request.tlp
                     THEN analyzer.maxTlp ELSE request.tlp,
             pap |-> IF "maxPap" \in DOMAIN analyzer /\ analyzer.maxPap < request.pap
                     THEN analyzer.maxPap ELSE request.pap],
   outcome |-> Pending]

\* client.runAnalyzer(analyzer.id, {data, dataType, tlp, pap}), bulk.ts 62-67
RunCall(analyzer, i, request) ==
  [op |-> "runAnalyzer", slot |-> i, analyzerId |-> analyzer.id,
   body |-> [data |-> request.data, dataType |-> request.dataType,
             tlp |-> request.tlp, pap |-> request.pap],
   outcome |-> Pending]

\* client.waitAndGetReport(jobId, timeout), bulk.ts 91
WaitCall(sub, i, request) ==
  [op |-> "waitAndGetReport", slot |-> i, jobId |-> sub.jobId,
   timeoutSeconds |-> request.timeout, outcome |-> Pending]

\* The Job the server creates for the c-th call of the invocation
\* (types.ts 18-35); job ids are unique.
NewJob(c) == [id |-> <<"job", c>>, status |-> "Waiting"]

\* The outcomes of one runAnalyzer call
RunOutcomes(c) == {Fulfilled(NewJob(c))} \cup {Rejected(e) : e \in RunErrors}

\* The outcomes of one waitAndGetReport call for job id
WaitOutcomes(id) ==
  {Fulfilled(b @@ [id |-> id]) : b \in ReportBodies}
    \cup {Fulfilled(Null)}
    \cup {Rejected(e) : e \in WaitErrors}

\* Whether call c settles while an earlier call of the same stage is pending.
Overtakes(c) ==
  \E b \in 1..(c - 1) : calls[b].op = calls[c].op /\ calls[b].outcome = Pending

\* Faulty variant of JoinReady: the join of Promise.all, which ends at the first rejection.
JoinFailFast(slots) ==
  AllSettled(slots) \/ \E i \in DOMAIN slots : slots[i].status = "rejected"

\* Faulty variant of JoinReady: the join resolves only when every promise fulfilled.
JoinNeedsAllFulfilled(slots) ==
  \A i \in DOMAIN slots : slots[i].status = "fulfilled"

\* Faulty variant of JoinReady: the join of Promise.race, which ends with the first settlement.
JoinAtFirstSettled(slots) ==
  slots = <<>> \/ \E i \in DOMAIN slots : slots[i].status # "pending"

\* The join of Promise.allSettled: it resolves when every promise has settled.
JoinReady(slots) == AllSettled(slots)

(***************************************************************************)
(* The handler, one action per stretch between two awaits                  *)
(***************************************************************************)

\* bulk.ts 13-43: the tool is called.  The arguments are parsed against the
\* schema first; only parsed arguments reach the handler, which then awaits
\* listAnalyzers.  Arguments that fail the schema are answered with an error
\* and the handler is not run.
Invoke(a) ==
  /\ pc = "Idle"
  /\ args' = a
  /\ LET parsed == ParseArguments(a) IN
       IF parsed.success
       THEN /\ pc' = "Resolving"
            /\ req' = parsed.data
            /\ calls' = <<ListCall>>
            /\ UNCHANGED response
       ELSE /\ pc' = "Invalid"
            /\ response' = InvalidArguments(parsed.issues)
            /\ UNCHANGED <<req, calls>>
  /\ UNCHANGED <<outOfOrder, directory, applicable, submissions, submitted, failed,
                 reports, earlier>>
  /\ UNCHANGED clientVars

\* bulk.ts 43-70: listAnalyzers fulfils; filter, short-circuit or submit.
ListFulfilled ==
  /\ pc = "Resolving"
  /\ LET allAnalyzers == directory
         appl == Applicable(allAnalyzers, req.dataType)
         settled == [calls EXCEPT ![1].outcome = Fulfilled(allAnalyzers)]
     IN  /\ applicable' = appl
         /\ IF Len(appl) = 0
            THEN /\ pc' = "NoProviders"
                 /\ response' = NoAnalyzersResponse(req)
                 /\ calls' = settled
                 /\ submissions' = submissions
            ELSE /\ pc' = "Submitting"
                 /\ response' = response
                 /\ calls' = settled \o
                      [i \in DOMAIN appl |-> RunCall(appl[i], i, req)]
                 /\ submissions' = [i \in DOMAIN appl |-> Pending]
  /\ UNCHANGED <<outOfOrder, directory, req, submitted, failed, reports>>
  /\ UNCHANGED <<args, earlier>>
  /\ UNCHANGED clientVars

\* bulk.ts 43, 161-171: listAnalyzers rejects; the catch block answers.
ListRejected(error) ==
  /\ pc = "Resolving"
  /\ pc' = "Fatal"
  /\ calls' = [calls EXCEPT ![1].outcome = Rejected(error)]
  /\ response' = ErrorResponse(error)
  /\ UNCHANGED <<outOfOrder, directory, req, applicable, submissions, submitted, failed,
                 reports>>
  /\ UNCHANGED <<args, earlier>>
  /\ UNCHANGED clientVars

\* bulk.ts 62-68: one runAnalyzer call settles and its mapper finishes.
RunSettle(c, outcome) ==
  /\ pc = "Submitting"
  /\ calls[c].op = "runAnalyzer"
  /\ calls[c].outcome = Pending
  /\ calls' = [calls EXCEPT ![c].outcome = outcome]
  /\ submissions' =
       SettleSlot(submissions, calls[c].slot,
                  SubmissionResult(applicable[calls[c].slot], outcome))
  /\ outOfOrder' = (outOfOrder \/ Overtakes(c))
  /\ UNCHANGED <<directory, pc, req, applicable, submitted, failed, reports,
                 response>>
  /\ UNCHANGED <<args, earlier>>
  /\ UNCHANGED clientVars

\* bulk.ts 60-94: the first join resolves; split the outcomes, start the waits.
SubmitJoin ==
  /\ pc = "Submitting"
  /\ JoinReady(submissions)
  /\ LET subm == SubmittedOf(submissions)
     IN  /\ submitted' = subm
         /\ failed' = FailedOf(submissions, applicable)
         /\ calls' = calls \o [i \in DOMAIN subm |-> WaitCall(subm[i], i, req)]
         /\ reports' = [i \in DOMAIN subm |-> Pending]
  /\ pc' = "Collecting"
  /\ UNCHANGED <<outOfOrder, directory, req, applicable, submissions, response>>
  /\ UNCHANGED <<args, earlier>>
  /\ UNCHANGED clientVars

\* bulk.ts 91-92: one waitAndGetReport call settles and its mapper finishes.
WaitSettle(c, outcome) ==
  /\ pc = "Collecting"
  /\ calls[c].op = "waitAndGetReport"
  /\ calls[c].outcome = Pending
  /\ calls' = [calls EXCEPT ![c].outcome = outcome]
  /\ reports' =
       SettleSlot(reports, calls[c].slot,
                  ReportResult(submitted[calls[c].slot], outcome))
  /\ outOfOrder' = (outOfOrder \/ Overtakes(c))
  /\ UNCHANGED <<directory, pc, req, applicable, submissions, submitted,
                 failed, response>>
  /\ UNCHANGED <<args, earlier>>
  /\ UNCHANGED clientVars

\* bulk.ts 89-94: the second join resolves.
CollectJoin ==
  /\ pc = "Collecting"
  /\ JoinReady(reports)
  /\ pc' = "Aggregating"
  /\ UNCHANGED <<outOfOrder, directory, req, calls, applicable, submissions, submitted,
                 failed, reports, response>>
  /\ UNCHANGED <<args, earlier>>
  /\ UNCHANGED clientVars

\* bulk.ts 96-171: aggregate and answer; a throw in the loop reaches the catch.
Aggregate ==
  /\ pc = "Aggregating"
  /\ IF AggregationThrows(reports)
     THEN /\ pc' = "Fatal"
          /\ response' = ErrorResponse(TypeErrorOfNull)
     ELSE /\ pc' = "Done"
          /\ response' = ReportResponse(req, submitted, failed, reports)
  /\ UNCHANGED <<outOfOrder, directory, req, calls, applicable, submissions, submitted,
                 failed, reports>>
  /\ UNCHANGED <<args, earlier>>
  /\ UNCHANGED clientVars

Terminal == {"NoProviders", "Done", "Fatal", "Invalid", "Returned"}

\* The handler has returned; the server is ready for the next tool call, and
\* nothing of the finished invocation is kept (all of it was local).
Returning ==
  /\ pc \in Terminal
  /\ pc' = "Idle"
  /\ req' = NoRequest
  /\ calls' = <<>>
  /\ applicable' = <<>>
  /\ submissions' = <<>>
  /\ submitted' = <<>>
  /\ failed' = <<>>
  /\ reports' = <<>>
  /\ response' = NoResponse
  /\ outOfOrder' = FALSE
  /\ args' = NoArguments
  /\ UNCHANGED directory
  /\ UNCHANGED clientVars

Return == Returning /\ UNCHANGED earlier

\* Between two tool calls an analyzer is enabled or disabled in Cortex.
DirectoryChanging(d) ==
  /\ pc = "Idle"
  /\ d # directory
  /\ directory' = d
  /\ UNCHANGED <<outOfOrder, pc, req, calls, applicable, submissions, submitted, failed,
                 reports, response>>
  /\ UNCHANGED args
  /\ UNCHANGED clientVars

DirectoryChange(d) == DirectoryChanging(d) /\ UNCHANGED earlier

Next ==
  \/ \E a \in Arguments : Invoke(a)
  \/ ListFulfilled
  \/ \E error \in ListErrors : ListRejected(error)
  \/ \E c \in DOMAIN calls : \E outcome \in RunOutcomes(c) : RunSettle(c, outcome)
  \/ SubmitJoin
  \/ \E c \in DOMAIN calls :
       calls[c].op = "waitAndGetReport" /\
       \E outcome \in WaitOutcomes(calls[c].jobId) : WaitSettle(c, outcome)
  \/ CollectJoin
  \/ Aggregate
  \/ Return
  \/ \E d \in Directories : DirectoryChange(d)

Spec == Init /\ [][Next]_vars

\* What happens without a caller: a pending client call settles, or the
\* handler runs its next stretch or returns.
Progress ==
  \/ ListFulfilled
  \/ \E error \in ListErrors : ListRejected(error)
  \/ \E c \in DOMAIN calls : \E outcome \in RunOutcomes(c) : RunSettle(c, outcome)
  \/ SubmitJoin
  \/ \E c \in DOMAIN calls :
       calls[c].op = "waitAndGetReport" /\
       \E outcome \in WaitOutcomes(calls[c].jobId) : WaitSettle(c, outcome)
  \/ CollectJoin
  \/ Aggregate
  \/ Return

\* Analyzer lists in which the two ip-only analyzers come before the others
OrderedDirectories ==
  { d \in Directories :
      \A i, j \in DOMAIN d : i < j => d[i].id \in { "AbuseIPDB_1_0", "MaxMind_GeoIP_4_0" }
                                       \/ d[j].id \in { "URLhaus_2_0", "VirusTotal_GetReport_3_1" } }

\* One tool call per kind of invocation: three applicable analyzers, one,
\* none, and arguments the schema rejects.
LiveArguments ==
  { Arg("ip", Number(2), Number(2), Number(60)),
    Arg("hash", Number(0), Number(3), Number(3600)),
    Arg("registry", Number(2), Number(2), Number(60)),
    Arg("ip", Number(4), Number(2), Number(60)) }

InitLive ==
  /\ Init
  /\ directory \in OrderedDirectories

NextLive ==
  \/ \E a \in LiveArguments : Invoke(a)
  \/ Progress
  \/ \E d \in OrderedDirectories : DirectoryChange(d)

\* The bulk tool when every client call settles in the end and the event
\* loop runs every continuation that is ready.
SpecLive == InitLive /\ [][NextLive]_vars /\ WF_vars(Progress)

\* Return, noting how the invocation ended.
ReturnNoted ==
  /\ Returning
  /\ earlier' = [returned |-> TRUE, ended |-> pc, dataType |-> req.dataType,
                 applicable |-> applicable, changed |-> FALSE]

\* DirectoryChange, noting a change that follows a returned invocation.
DirectoryChangeNoted(d) ==
  /\ DirectoryChanging(d)
  /\ earlier' = IF earlier.returned THEN [earlier EXCEPT !.changed = TRUE]
                 ELSE earlier

\* The tool calls of successive invocations: hash and registry observables.
SuccessiveArguments ==
  { a \in Arguments : a.dataType \in {Text("hash"), Text("registry")} }

NextNoted ==
  \/ \E a \in SuccessiveArguments : Invoke(a)
  \/ ListFulfilled
  \/ \E error \in ListErrors : ListRejected(error)
  \/ \E c \in DOMAIN calls : \E outcome \in RunOutcomes(c) : RunSettle(c, outcome)
  \/ SubmitJoin
  \/ \E c \in DOMAIN calls :
       calls[c].op = "waitAndGetReport" /\
       \E outcome \in WaitOutcomes(calls[c].jobId) : WaitSettle(c, outcome)
  \/ CollectJoin
  \/ Aggregate
  \/ ReturnNoted
  \/ \E d \in Directories : DirectoryChangeNoted(d)

\* Successive invocations of the bulk tool, with the history of what
\* happened between them
SpecNoted == Init /\ [][NextNoted]_vars

(***************************************************************************)
(* The server's start and CortexClient.request, one action per stretch     *)
(* between two awaits, on a clock that moves from event to event           *)
(***************************************************************************)

\* Calls of CortexClient.request in one behaviour
MaxRequests == 1

\* Milliseconds the server takes to send its response head; for waitreport
\* the time the job still runs.
Latencies == {500, 45000}

\* Milliseconds the response body takes after the head
BodyDelays == {0, 60000}

handlerVars == <<directory, pc, req, calls, applicable, submissions, submitted,
                 failed, reports, response, outOfOrder, earlier, args>>

NoConfig == [loaded |-> FALSE]
NoClient == [built |-> FALSE]
NoHttp == [status |-> 0, statusText |-> "", body |-> ""]

InitClient ==
  /\ directory = <<>>
  /\ HandlerIdle
  /\ env \in Envs
  /\ boot = "Starting"
  /\ config = NoConfig
  /\ client = NoClient
  /\ now = 0
  /\ requests = <<>>

\* index.ts 19-20: getConfig, then new CortexClient(config); a throw of
\* getConfig ends the process.
Start ==
  /\ boot = "Starting"
  /\ config' = GetConfig(env)
  /\ boot' = IF config'.threw THEN "Failed" ELSE "Ready"
  /\ client' = IF config'.threw THEN NoClient ELSE NewClient(config')
  /\ UNCHANGED <<env, now, requests, handlerVars>>

Min(a, b) == IF a <= b THEN a ELSE b
Max(a, b) == IF a >= b THEN a ELSE b

\* Cortex answers waitreport when the job is over or atMost has passed,
\* whichever is first (client.ts 104-111); other calls after their latency.
HeadAfter(call, latency) ==
  IF call.method = "waitAndGetReport" THEN Min(latency, call.atMost * 1000)
  ELSE latency

\* The instants at which something is due for a request
EventTimes(r) ==
  CASE r.phase = "fetching" -> {r.headAt} \cup (IF r.timerArmed THEN {r.timerAt} ELSE {})
    [] r.phase = "readingText" -> {r.bodyAt} \cup (IF r.timerArmed THEN {r.timerAt} ELSE {})
    [] r.phase = "readingJson" -> {r.bodyAt}
    [] OTHER -> {}

\* Nothing else is due before t.
Due(t) == \A i \in DOMAIN requests : \A u \in EventTimes(requests[i]) : t <= u

\* client.ts 28-41: request arms the timer and awaits fetch.
Issue(call, latency) ==
  /\ boot = "Ready"
  /\ Len(requests) < MaxRequests
  /\ requests' = Append(requests,
       [call |-> call,
        options |-> FetchOptions(client, config, call),
        latency |-> latency,
        startedAt |-> now,
        timerAt |-> now + TimerDelay(client.timeout),
        timerArmed |-> TRUE,
        headAt |-> now + HeadAfter(call, latency),
        phase |-> "fetching",
        http |-> NoHttp,
        text |-> Pending,
        bodyAt |-> 0,
        outcome |-> Pending,
        settledAt |-> 0])
  /\ UNCHANGED <<env, boot, config, client, now, handlerVars>>

Settle(r, outcome, at) ==
  [r EXCEPT !.phase = "settled", !.timerArmed = FALSE, !.outcome = outcome,
            !.settledAt = at]

\* client.ts 37-58: fetch fulfils with the response head.  A 2xx response
\* returns the promise of response.json() and leaves the try, so `finally`
\* clears the timer; otherwise the handler awaits response.text().
ResponseHead(i, http, bodyDelay) ==
  /\ i \in DOMAIN requests
  /\ requests[i].phase = "fetching"
  /\ Due(requests[i].headAt)
  /\ now' = Max(now, requests[i].headAt)
  /\ requests' = [requests EXCEPT ![i] =
       [@ EXCEPT !.http = http,
                 !.bodyAt = now' + bodyDelay,
                 !.phase = IF Ok(http) THEN "readingJson" ELSE "readingText",
                 !.timerArmed = ~Ok(http)]]
  /\ UNCHANGED <<env, boot, config, client, handlerVars>>

\* client.ts 37, 59-66: fetch rejects (no connection); the error is rethrown.
FetchFails(i) ==
  /\ i \in DOMAIN requests
  /\ requests[i].phase = "fetching"
  /\ Due(requests[i].headAt)
  /\ now' = Max(now, requests[i].headAt)
  /\ requests' = [requests EXCEPT ![i] =
       Settle(@, Rejected([name |-> "TypeError", message |-> <<"fetch failed">>]), now')]
  /\ UNCHANGED <<env, boot, config, client, handlerVars>>

\* client.ts 34, 59-62: the timer aborts the request.  While fetch is awaited
\* the AbortError becomes the timeout error; while response.text() is awaited
\* its rejection is caught as "" (client.ts 44) and the API error is thrown.
Expire(i) ==
  /\ i \in DOMAIN requests
  /\ requests[i].timerArmed
  /\ Due(requests[i].timerAt)
  /\ now' = Max(now, requests[i].timerAt)
  /\ LET r == requests[i] IN
       requests' = [requests EXCEPT ![i] =
         IF r.phase = "fetching"
         THEN Settle(r, Rejected(TimeoutError(client)), now')
         ELSE Settle([r EXCEPT !.text = Rejected([name |-> "AbortError"])],
                     Rejected(ApiError(r.http, "")), now')]
  /\ UNCHANGED <<env, boot, config, client, handlerVars>>

\* client.ts 44-55: response.text() yields the body, or fails and yields "".
TextRead(i, readable) ==
  /\ i \in DOMAIN requests
  /\ requests[i].phase = "readingText"
  /\ Due(requests[i].bodyAt)
  /\ now' = Max(now, requests[i].bodyAt)
  /\ LET r == requests[i] IN
       requests' = [requests EXCEPT ![i] =
         IF readable
         THEN Settle([r EXCEPT !.text = Fulfilled(r.http.body)],
                     Rejected(ApiError(r.http, r.http.body)), now')
         ELSE Settle([r EXCEPT !.text = Rejected([name |-> "TypeError"])],
                     Rejected(ApiError(r.http, "")), now')]
  /\ UNCHANGED <<env, boot, config, client, handlerVars>>

\* What response.json() parses from a 2xx body; for waitreport the job is
\* over only if it ended within atMost.
Parsed(r) ==
  [json |-> r.http.body,
   jobStatus |-> IF r.call.method # "waitAndGetReport" THEN "none"
                 ELSE IF r.latency <= r.call.atMost * 1000 THEN "Success"
                 ELSE "InProgress"]

\* client.ts 58: the promise of response.json() settles the call.
JsonRead(i) ==
  /\ i \in DOMAIN requests
  /\ requests[i].phase = "readingJson"
  /\ Due(requests[i].bodyAt)
  /\ now' = Max(now, requests[i].bodyAt)
  /\ requests' = [requests EXCEPT ![i] =
       Settle(@, IF @.http.body = ""
                 THEN Rejected([name |-> "SyntaxError",
                                message |-> <<"Unexpected end of JSON input">>])
                 ELSE Fulfilled(Parsed(@)), now')]
  /\ UNCHANGED <<env, boot, config, client, handlerVars>>

NextClient ==
  \/ Start
  \/ \E call \in ClientCalls : \E latency \in Latencies : Issue(call, latency)
  \/ \E i \in DOMAIN requests : \E http \in HttpResponses : \E bodyDelay \in BodyDelays :
       ResponseHead(i, http, bodyDelay)
  \/ \E i \in DOMAIN requests : FetchFails(i)
  \/ \E i \in DOMAIN requests : Expire(i)
  \/ \E i \in DOMAIN requests : \E readable \in BOOLEAN : TextRead(i, readable)
  \/ \E i \in DOMAIN requests : JsonRead(i)

SpecClient == InitClient /\ [][NextClient]_vars

(***************************************************************************)
(* The other tool handlers (tools/analyzers.ts, jobs.ts, responders.ts):   *)
(* each awaits one client call inside try/catch and formats its payload;   *)
(* cortex_run_analyzer_by_name awaits listAnalyzers and then runAnalyzer.  *)
(***************************************************************************)

\* Per tool: the client method it awaits first, the prefix of its error text,
\* and whether it reads a property of the payload (which throws on null)
\* or only hands the payload to JSON.stringify.
Tools ==
  [cortex_list_analyzers |->
     [method |-> "listAnalyzers", prefix |-> "Error listing analyzers: ", reads |-> TRUE],
   cortex_get_analyzer |->
     [method |-> "getAnalyzer", prefix |-> "Error getting analyzer: ", reads |-> FALSE],
   cortex_run_analyzer |->
     [method |-> "runAnalyzer", prefix |-> "Error running analyzer: ", reads |-> TRUE],
   cortex_run_analyzer_by_name |->
     [method |-> "listAnalyzers", prefix |-> "Error running analyzer by name: ",
      reads |-> TRUE],
   cortex_get_job |->
     [method |-> "getJob", prefix |-> "Error getting job: ", reads |-> FALSE],
   cortex_get_job_report |->
     [method |-> "getJobReport", prefix |-> "Error getting job report: ", reads |-> FALSE],
   cortex_wait_and_get_report |->
     [method |-> "waitAndGetReport", prefix |-> "Error waiting for report: ",
      reads |-> TRUE],
   cortex_list_jobs |->
     [method |-> "searchJobs", prefix |-> "Error listing jobs: ", reads |-> TRUE],
   cortex_get_job_artifacts |->
     [method |-> "getJobArtifacts", prefix |-> "Error getting job artifacts: ",
      reads |-> FALSE],
   cortex_list_responders |->
     [method |-> "listResponders", prefix |-> "Error listing responders: ", reads |-> TRUE],
   cortex_run_responder |->
     [method |-> "runResponder", prefix |-> "Error running responder: ", reads |-> TRUE]]

ListTools == {"cortex_list_analyzers", "cortex_list_responders"}

\* Responder records (types.ts Responder), the tests' mockResponders first
ResponderLists ==
  LET Mailer == [id |-> "Mailer_1_0", name |-> "Mailer",
                 dataTypeList |-> <<"case", "case_artifact", "alert">>]
      Blocker == [id |-> "Blocker_2_0", name |-> "Blocker",
                  dataTypeList |-> <<"case_artifact">>]
  IN {<<>>, <<Mailer>>, <<Mailer, Blocker>>, <<Blocker, Mailer>>}

\* Names as the characters they consist of
Spell(name) ==
  CASE name = "VirusTotal_GetReport" ->
         <<"V", "i", "r", "u", "s", "T", "o", "t", "a", "l", "_",
           "G", "e", "t", "R", "e", "p", "o", "r", "t">>
    [] name = "AbuseIPDB" -> <<"A", "b", "u", "s", "e", "I", "P", "D", "B">>
    [] name = "URLhaus" -> <<"U", "R", "L", "h", "a", "u", "s">>
    [] name = "MaxMind_GeoIP" ->
         <<"M", "a", "x", "M", "i", "n", "d", "_", "G", "e", "o", "I", "P">>

\* The analyzerName arguments of the model: abuse, TOTAL, a, xyz and ""
AnalyzerNames ==
  { <<"a", "b", "u", "s", "e">>, <<"T", "O", "T", "A", "L">>, <<"a">>,
    <<"x", "y", "z">>, <<>> }

UpperToLower ==
  ("A" :> "a") @@ ("B" :> "b") @@ ("D" :> "d") @@ ("G" :> "g") @@ ("I" :> "i") @@
  ("L" :> "l") @@ ("M" :> "m") @@ ("O" :> "o") @@ ("P" :> "p") @@ ("R" :> "r") @@
  ("T" :> "t") @@ ("U" :> "u") @@ ("V" :> "v")

\* String.prototype.toLowerCase
ToLowerCase(chars) ==
  [i \in DOMAIN chars |->
     IF chars[i] \in DOMAIN UpperToLower THEN UpperToLower[chars[i]] ELSE chars[i]]

\* String.prototype.includes
StringIncludes(chars, part) ==
  \E k \in 0..(Len(chars) - Len(part)) : SubSeq(chars, k + 1, k + Len(part)) = part

\* The arguments of the tools, after their schemas; dataType is optional for
\* the list tools and may be any string, the empty one included.
ToolArguments(tool) ==
  CASE tool \in ListTools ->
         { [tool |-> tool, dataType |-> dt] :
             dt \in {Absent, Text(""), Text("ip"), Text("case"), Text("registry")} }
    [] tool = "cortex_run_analyzer_by_name" ->
         { [tool |-> tool, analyzerName |-> n, dataType |-> Text(dt),
            data |-> "8.8.8.8", tlp |-> 2, pap |-> 2] :
             n \in AnalyzerNames, dt \in {"ip", "url", "registry"} }
    [] tool = "cortex_wait_and_get_report" ->
         { [tool |-> tool, jobId |-> "job_1", timeout |-> 300] }
    [] OTHER -> { [tool |-> tool] }

\* Rejections of a client call (client.ts 55, 61)
ToolErrors ==
  { [message |-> "Cortex API error: Resource not found"],
    [message |-> "Cortex API timeout after 30000ms"] }

\* A JSON array
Array(items) == [items |-> items]

\* What a client method can fulfil with: the payload the server sent, which
\* response.json() hands over unchecked (client.ts 58), null included.
Payloads(method) ==
  CASE method = "listAnalyzers" -> {Array(directory)}
    [] method = "listResponders" -> {Array(l) : l \in ResponderLists}
    [] method = "searchJobs" ->
         {Array(<<>>), Array(<<[id |-> "job_1", status |-> "Success"]>>)}
    [] method = "getJobArtifacts" ->
         {Array(<<>>), Array(<<[dataType |-> "ip", data |-> "1.2.3.4"]>>)}
    [] OTHER -> {[id |-> "job_1", status |-> "Success"]}

ToolOutcomes(method) ==
  {Fulfilled(v) : v \in Payloads(method) \cup {Null}}
    \cup {Rejected(e) : e \in ToolErrors}

\* Faulty variant of ToolError: the error is answered as ordinary text.
ToolErrorUnflagged(tool, error) ==
  [returned |-> TRUE, isError |-> FALSE,
   text |-> [kind |-> "Error", prefix |-> Tools[tool].prefix,
             message |-> ErrorText(error)]]

\* The catch block of every handler
ToolError(tool, error) ==
  [returned |-> TRUE, isError |-> TRUE,
   text |-> [kind |-> "Error", prefix |-> Tools[tool].prefix,
             message |-> ErrorText(error)]]

\* Faulty variant of ToolFilter: an entry is kept for its first data type only.
ToolFilterFirstType(list, dataType) ==
  IF dataType.type = "string" /\ dataType.value # ""
  THEN SelectSeq(list, LAMBDA a : a.dataTypeList[1] = dataType.value)
  ELSE list

\* analyzers.ts 37-41, responders.ts 22-26: if (dataType) list = list.filter(...)
ToolFilter(list, dataType) ==
  IF dataType.type = "string" /\ dataType.value # ""
  THEN SelectSeq(list, LAMBDA a : Includes(a.dataTypeList, dataType.value))
  ELSE list

\* analyzers.ts 43-49, responders.ts 28-34: the summary of the entries
Summary(list) ==
  [i \in DOMAIN list |->
     [id |-> list[i].id, name |-> list[i].name, dataTypes |-> list[i].dataTypeList]]

Json(value) == [returned |-> TRUE, isError |-> FALSE,
                text |-> [kind |-> "Json", value |-> value]]

\* analyzers.ts 198-201: the test of analyzers.find
NameAndTypeMatch(a, request) ==
  /\ StringIncludes(ToLowerCase(Spell(a.name)), ToLowerCase(request.analyzerName))
  /\ Includes(a.dataTypeList, request.dataType.value)

\* Faulty variant of Find: the data type is not looked at.
FindByNameOnly(analyzers, request) ==
  LET hits == {i \in DOMAIN analyzers :
                 StringIncludes(ToLowerCase(Spell(analyzers[i].name)),
                                ToLowerCase(request.analyzerName))}
  IN IF hits = {} THEN Undefined
     ELSE analyzers[CHOOSE i \in hits : \A j \in hits : i <= j]

\* analyzers.ts 197-202: analyzers.find(...), the first hit or undefined
Find(analyzers, request) ==
  LET hits == {i \in DOMAIN analyzers : NameAndTypeMatch(analyzers[i], request)}
  IN IF hits = {} THEN Undefined
     ELSE analyzers[CHOOSE i \in hits : \A j \in hits : i <= j]

\* analyzers.ts 203-213
NoAnalyzerFound(request) ==
  [returned |-> TRUE, isError |-> TRUE,
   text |-> [kind |-> "NoAnalyzerFound", analyzerName |-> request.analyzerName,
             dataType |-> request.dataType.value]]

\* The text a handler builds from a payload it could read
Formatted(request, payload) ==
  CASE request.tool \in ListTools ->
         Json(Summary(ToolFilter(payload.items, request.dataType)))
    [] request.tool \in {"cortex_run_analyzer", "cortex_run_responder",
                         "cortex_wait_and_get_report"} ->
         Json([id |-> payload.id, status |-> payload.status])
    [] OTHER -> Json(payload)

\* The first client call of a handler; jobs.ts 86 passes jobId and timeout.
ToolCall(request) ==
  IF request.tool = "cortex_wait_and_get_report"
  THEN [op |-> "waitAndGetReport", slot |-> 0, jobId |-> request.jobId,
        timeoutSeconds |-> request.timeout, outcome |-> Pending]
  ELSE [op |-> Tools[request.tool].method, slot |-> 0, outcome |-> Pending]

\* A tool other than cortex_analyze_observable is called: the handler runs up
\* to its first await.
ToolInvoke(request) ==
  /\ pc = "Idle"
  /\ pc' = "Awaiting"
  /\ req' = request
  /\ calls' = <<ToolCall(request)>>
  /\ UNCHANGED <<outOfOrder, directory, applicable, submissions, submitted, failed,
                 reports, response, args, earlier>>
  /\ UNCHANGED clientVars

TypeErrorReadingNull == [message |-> "Cannot read properties of null"]

\* analyzers.ts 215-238: the text after runAnalyzer fulfilled for `match`
SubmittedTo(match, job) ==
  Json([jobId |-> job.id, status |-> job.status,
        analyzerUsed |-> [id |-> match.id, name |-> match.name]])

\* The awaited client call settles and the handler runs on: to its catch
\* block for a rejection or an unreadable payload, to the second call of
\* cortex_run_analyzer_by_name, or to its return.
ToolSettle(outcome) ==
  /\ pc = "Awaiting"
  /\ LET c == Len(calls)
         settled == [calls EXCEPT ![c].outcome = outcome]
         byName == req.tool = "cortex_run_analyzer_by_name"
     IN
       IF outcome.status = "rejected"
       THEN /\ calls' = settled
            /\ response' = ToolError(req.tool, outcome.reason)
            /\ pc' = "Returned"
       ELSE IF Tools[req.tool].reads /\ IsNull(outcome.value)
       THEN /\ calls' = settled
            /\ response' = ToolError(req.tool, TypeErrorReadingNull)
            /\ pc' = "Returned"
       ELSE IF byName /\ calls[c].op = "listAnalyzers"
       THEN LET match == Find(outcome.value.items, req) IN
              IF match = Undefined
              THEN /\ calls' = settled
                   /\ response' = NoAnalyzerFound(req)
                   /\ pc' = "Returned"
              ELSE /\ calls' = Append(settled,
                        RunCall(match, 1, [data |-> req.data,
                                           dataType |-> req.dataType.value,
                                           tlp |-> req.tlp, pap |-> req.pap]))
                   /\ UNCHANGED <<pc, response>>
       ELSE IF byName
       THEN /\ calls' = settled
            /\ response' = SubmittedTo(Find(calls[1].outcome.value.items, req),
                                       outcome.value)
            /\ pc' = "Returned"
       ELSE /\ calls' = settled
            /\ response' = Formatted(req, outcome.value)
            /\ pc' = "Returned"
  /\ UNCHANGED <<outOfOrder, directory, req, applicable, submissions, submitted, failed,
                 reports, args, earlier>>
  /\ UNCHANGED clientVars

ToolSteps ==
  \/ \E tool \in DOMAIN Tools : \E request \in ToolArguments(tool) : ToolInvoke(request)
  \/ /\ pc = "Awaiting"
     /\ \E outcome \in ToolOutcomes(calls[Len(calls)].op) : ToolSettle(outcome)

NextTools ==
  \/ ToolSteps
  \/ Return
  \/ \E d \in Directories : DirectoryChange(d)

\* The eleven single-purpose tools
SpecTools == Init /\ [][NextTools]_vars

\* All twelve tools
NextAllTools == Next \/ ToolSteps

SpecAllTools == Init /\ [][NextAllTools]_vars

(***************************************************************************)
(* What the client-call log says happened, for stating the properties      *)
(***************************************************************************)

Range(f) == { f[i] : i \in DOMAIN f }

\* The analyzer list the listAnalyzers call returned
ListReturned == calls[1].outcome.value

ListHasFulfilled == calls # <<>> /\ calls[1].outcome.status = "fulfilled"

RunCallsLog == SelectSeq(calls, LAMBDA x : x.op = "runAnalyzer")
WaitCallsLog == SelectSeq(calls, LAMBDA x : x.op = "waitAndGetReport")

\* The runAnalyzer calls, in call order, that fulfilled / rejected
FulfilledRuns == SelectSeq(RunCallsLog, LAMBDA x : x.outcome.status = "fulfilled")
RejectedRuns == SelectSeq(RunCallsLog, LAMBDA x : x.outcome.status = "rejected")

\* The name of the analyzer a runAnalyzer call was made for
NameOfCall(x) ==
  (CHOOSE a \in Range(ListReturned) : a.id = x.analyzerId).name

\* The analyzers of the returned list that declare the data type, in list order
Supporting == SelectSeq(ListReturned, LAMBDA a : \E k \in DOMAIN a.dataTypeList :
                                                   a.dataTypeList[k] = req.dataType)

\* The handler has split the submissions into submitted and failed
PastSubmission == pc \in {"Collecting", "Aggregating", "Done"}
                    \/ (pc = "Fatal" /\ ListHasFulfilled)

NamedIn(list, name) == \E k \in DOMAIN list : list[k].analyzer = name

\* The serialized report of the response
TheReport == response.text.json

(***************************************************************************)
(* Properties                                                              *)
(***************************************************************************)

\* C1 (P1, partition): in every run that reaches the report, every applicable
\* analyzer is named in exactly one of Submitted (submitted) and Rejected
\* (failed), and |Submitted| + |Rejected| = |applicable|.
C1_Partition ==
  pc = "Done" =>
    /\ \A i \in DOMAIN Supporting :
         NamedIn(submitted, Supporting[i].name) # NamedIn(failed, Supporting[i].name)
    /\ Len(submitted) + Len(failed) = Len(Supporting)

\* C2: the two lists keep descriptor order: the k-th entry of submissionErrors
\* names the k-th applicable analyzer whose runAnalyzer call rejected and has
\* that call's message, the k-th Submitted entry names the k-th analyzer whose
\* call fulfilled, and no analyzer whose submission succeeded is named in
\* submissionErrors.
C2_OrderedDisjointLists ==
  pc = "Done" =>
    /\ Len(failed) = Len(RejectedRuns)
    /\ \A k \in DOMAIN failed :
         /\ failed[k].analyzer = NameOfCall(RejectedRuns[k])
         /\ failed[k].error = RejectedRuns[k].outcome.reason.message
    /\ Len(submitted) = Len(FulfilledRuns)
    /\ \A k \in DOMAIN submitted :
         submitted[k].analyzer = NameOfCall(FulfilledRuns[k])
    /\ \A k \in DOMAIN FulfilledRuns :
         ~NamedIn(failed, NameOfCall(FulfilledRuns[k]))
    /\ ("submissionErrors" \in DOMAIN TheReport =>
          TheReport.submissionErrors = failed)

\* The waitAndGetReport calls made for a job id
WaitsFor(jobId) == SelectSeq(WaitCallsLog, LAMBDA w : w.jobId = jobId)

\* The job id a fulfilled runAnalyzer call returned
JobOf(x) == x.outcome.value.id

SomeRunRejected == Len(RejectedRuns) > 0
SomeWaitRejected == \E k \in DOMAIN WaitCallsLog : WaitCallsLog[k].outcome.status = "rejected"
SomeWaitFulfilled == \E k \in DOMAIN WaitCallsLog : WaitCallsLog[k].outcome.status = "fulfilled"

\* C3 (P2, partition of stage 2): every Submitted task yields exactly one
\* results entry, a Completed entry with the report's status or a Failed
\* entry with status "Error"; the length of results equals |Submitted|.
C3_ResultsPartition ==
  pc = "Done" =>
    /\ Len(TheReport.results) = Len(FulfilledRuns)
    /\ Len(TheReport.results) = Len(submitted)
    /\ \A i \in DOMAIN FulfilledRuns :
         /\ i \in DOMAIN TheReport.results
         /\ Len(WaitsFor(JobOf(FulfilledRuns[i]))) = 1
         /\ LET w == WaitsFor(JobOf(FulfilledRuns[i]))[1]
                entry == TheReport.results[i]
            IN  \/ /\ w.outcome.status = "fulfilled"
                   /\ entry.status = w.outcome.value.status
                   /\ entry.status # "Error"
                \/ /\ w.outcome.status = "rejected"
                   /\ entry.status = "Error"

C3_Witness ==
  /\ pc = "Done"
  /\ SomeWaitRejected
  /\ SomeWaitFulfilled
  /\ Len(TheReport.results) = Len(submitted)

\* C4 (P3, count consistency): in every report analyzersRun is the number of
\* analyzers whose submission call fulfilled and analyzersFailed the number
\* whose submission call rejected, whatever the completion waits did.
C4_CountConsistency ==
  pc = "Done" =>
    /\ TheReport.analyzersRun = Len(FulfilledRuns)
    /\ TheReport.analyzersFailed = Len(RejectedRuns)

C4_Witness ==
  /\ pc = "Done"
  /\ SomeRunRejected
  /\ SomeWaitRejected
  /\ SomeWaitFulfilled
  /\ TheReport.analyzersRun = 2
  /\ TheReport.analyzersFailed = 1

\* The taxonomies with the level in the payloads of the fulfilled waits, each
\* identified by its wait call and its position in the payload
FindingsAt(level) ==
  UNION { { <<k, n>> : n \in { m \in DOMAIN TaxonomiesOf(WaitCallsLog[k].outcome.value) :
                                 TaxonomiesOf(WaitCallsLog[k].outcome.value)[m].level = level } } :
          k \in { h \in DOMAIN WaitCallsLog : WaitCallsLog[h].outcome.status = "fulfilled" } }

\* C5 (P4, category tally): for each of the four severity categories the
\* summary count is the number of taxonomies of that level in the reports of
\* the Completed outcomes; rejected submissions and failed waits add nothing.
C5_CategoryTally ==
  pc = "Done" =>
    /\ DOMAIN TheReport.summary = Levels
    /\ \A level \in Levels :
         TheReport.summary[level] = Cardinality(FindingsAt(level))

C5_Witness ==
  /\ pc = "Done"
  /\ SomeRunRejected
  /\ SomeWaitRejected
  /\ TheReport.summary["safe"] = 2
  /\ TheReport.summary["info"] = 0
  /\ TheReport.summary["malicious"] = 0

\* C6 (P5, compactness): the serialized report has the submissionErrors field
\* if and only if at least one submission was rejected.
C6_Compactness ==
  pc = "Done" =>
    ("submissionErrors" \in DOMAIN TheReport <=> SomeRunRejected)

C6_Witness ==
  /\ pc = "Done"
  /\ SomeRunRejected
  /\ "submissionErrors" \in DOMAIN TheReport
  /\ Len(TheReport.submissionErrors) = 2

NoneSupports == Len(Supporting) = 0

\* C7: the handler goes from Resolving to NoProviders if and only if no
\* analyzer of the returned list declares the requested data type; it then
\* answers without error flag "No analyzers found" and has issued no
\* runAnalyzer and no waitAndGetReport call; otherwise it goes to Submitting.
C7_ShortCircuit ==
  [][ /\ (pc = "Resolving" /\ pc' # "Resolving" /\ ListHasFulfilled') =>
           IF NoneSupports'
           THEN /\ pc' = "NoProviders"
                /\ response'.returned
                /\ ~response'.isError
                /\ response'.text.kind = "NoAnalyzers"
                /\ Len(calls') = 1
           ELSE /\ pc' = "Submitting"
                /\ ~response'.returned
      /\ (pc # "NoProviders" /\ pc' = "NoProviders") =>
           (pc = "Resolving" /\ ListHasFulfilled' /\ NoneSupports')
      /\ (pc = "NoProviders" /\ pc' = "NoProviders") => calls' = calls
    ]_vars

C7_Witness ==
  /\ pc = "NoProviders"
  /\ Len(ListReturned) >= 2
  /\ req.dataType = "registry"
  /\ Len(calls) = 1
  /\ response.text.kind = "NoAnalyzers"

\* C8 (independent-failure submission): exactly one runAnalyzer call is issued
\* for every applicable analyzer, whatever the other calls' outcomes; a pending
\* submission can still settle either way after a sibling was rejected, and the
\* stage ends only when all of them have settled.
C8_IndependentSubmission ==
  /\ (pc = "Submitting" \/ PastSubmission) =>
       /\ Len(RunCallsLog) = Len(Supporting)
       /\ \A i \in DOMAIN RunCallsLog : RunCallsLog[i].analyzerId = Supporting[i].id
  /\ PastSubmission =>
       \A i \in DOMAIN RunCallsLog : RunCallsLog[i].outcome.status # "pending"
  /\ pc = "Submitting" =>
       \A c \in DOMAIN calls :
         (calls[c].op = "runAnalyzer" /\ calls[c].outcome = Pending) =>
           \A outcome \in RunOutcomes(c) : ENABLED RunSettle(c, outcome)

C8_Witness ==
  /\ pc = "Collecting"
  /\ Len(RunCallsLog) = 3
  /\ RunCallsLog[1].outcome.status = "rejected"
  /\ RunCallsLog[2].outcome.status = "fulfilled"
  /\ RunCallsLog[3].outcome.status = "rejected"

\* C9 (no cross-stage cancellation): for every analyzer whose submission
\* fulfilled exactly one waitAndGetReport call is issued for its job id, also
\* when other submissions were rejected or other waits fail, and no wait is
\* issued for an analyzer whose submission was rejected.
C9_EverySubmittedAwaited ==
  PastSubmission =>
    /\ \A k \in DOMAIN FulfilledRuns : Len(WaitsFor(JobOf(FulfilledRuns[k]))) = 1
    /\ \A w \in DOMAIN WaitCallsLog :
         \E k \in DOMAIN FulfilledRuns : WaitCallsLog[w].jobId = JobOf(FulfilledRuns[k])
    /\ Len(WaitCallsLog) = Len(FulfilledRuns)

C9_Witness ==
  /\ PastSubmission
  /\ SomeRunRejected
  /\ SomeWaitRejected
  /\ Len(WaitCallsLog) = 2
  /\ \A k \in DOMAIN FulfilledRuns : Len(WaitsFor(JobOf(FulfilledRuns[k]))) = 1

\* The results entry the outcome of a wait determines for an analyzer name
EntryFor(name, w) ==
  IF w.outcome.status = "fulfilled"
  THEN [analyzer |-> name,
        status |-> w.outcome.value.status,
        taxonomies |-> [n \in DOMAIN TaxonomiesOf(w.outcome.value) |->
                          Render(TaxonomiesOf(w.outcome.value)[n])]]
  ELSE [analyzer |-> name,
        status |-> "Error",
        taxonomies |-> <<<<"Error: ", w.outcome.reason.message>>>>]

\* C10 (ordering): whatever the order in which the concurrent calls settle,
\* the i-th results entry belongs to the i-th Submitted analyzer, in directory
\* order, and carries the outcome of that analyzer's own wait; the report is
\* a function of the per-analyzer outcomes alone.
C10_OrderIndependent ==
  pc = "Done" =>
    /\ \A i \in DOMAIN RunCallsLog : RunCallsLog[i].analyzerId = Supporting[i].id
    /\ Len(TheReport.results) = Len(FulfilledRuns)
    /\ \A i \in DOMAIN FulfilledRuns :
         /\ i \in DOMAIN TheReport.results
         /\ Len(WaitsFor(JobOf(FulfilledRuns[i]))) = 1
         /\ TheReport.results[i] =
              EntryFor(NameOfCall(FulfilledRuns[i]), WaitsFor(JobOf(FulfilledRuns[i]))[1])
    /\ TheReport.analyzersRun = Len(FulfilledRuns)
    /\ TheReport.analyzersFailed = Len(RejectedRuns)
    /\ \A level \in Levels : TheReport.summary[level] = Cardinality(FindingsAt(level))
    /\ TheReport.observable = [dataType |-> req.dataType, data |-> req.data]
    /\ ("submissionErrors" \in DOMAIN TheReport =>
          /\ Len(TheReport.submissionErrors) = Len(RejectedRuns)
          /\ \A k \in DOMAIN RejectedRuns :
               TheReport.submissionErrors[k].error = RejectedRuns[k].outcome.reason.message)

C10_Witness ==
  /\ pc = "Done"
  /\ outOfOrder
  /\ Len(TheReport.results) = 3
  /\ WaitCallsLog[1].outcome.status = "rejected"
  /\ WaitCallsLog[2].outcome.status = "fulfilled"

ListHasRejected == calls # <<>> /\ calls[1].outcome.status = "rejected"

\* C11: the error-flagged Fatal response is reached only from Resolving: once
\* the analyzer list has been fetched and is non-empty, no outcome of a
\* runAnalyzer or waitAndGetReport call (a rejection, a timeout, any fulfilled
\* payload) makes the handler answer with the error flag; it ends in Done.
C11_FatalOnlyFromResolving ==
  /\ pc = "Fatal" => ListHasRejected
  /\ (ListHasFulfilled /\ ~NoneSupports /\ response.returned) =>
       (pc = "Done" /\ ~response.isError /\ response.text.kind = "Report")

\* C12: when listAnalyzers fails no runAnalyzer and no waitAndGetReport call is
\* issued and the response is error-flagged and carries only the text
\* "Error analyzing observable: <message>"; every response that carries a
\* report is not error-flagged.
C12_ListFailureAborts ==
  /\ ListHasRejected =>
       /\ pc = "Fatal"
       /\ Len(calls) = 1
       /\ response = [returned |-> TRUE, isError |-> TRUE,
                      text |-> [kind |-> "Error",
                                prefix |-> "Error analyzing observable: ",
                                message |-> calls[1].outcome.reason.message]]
  /\ (response.returned /\ response.text.kind = "Report") => ~response.isError
  /\ (response.returned /\ response.isError) => response.text.kind = "Error"

C12_Witness ==
  /\ pc = "Fatal"
  /\ ListHasRejected
  /\ Len(directory) >= 2
  /\ response.isError
  /\ req.dataType = "ip"

\* The timeout error of CortexClient.request (client.ts 61)
IsTimeout(reason) == reason.message = "Cortex API timeout after 30000ms"

TimedOut(r) == r.phase = "settled" /\ r.outcome = Rejected(TimeoutError(client))

\* C14: a completion wait is failed for its deadline only once the
\* caller-supplied timeout (atMost seconds) has elapsed, and never when the
\* job ended within that timeout.
C14_WaitBoundedByCallerTimeout ==
  \A i \in DOMAIN requests :
    LET r == requests[i] IN
      (r.call.method = "waitAndGetReport" /\ TimedOut(r)) =>
        /\ r.settledAt - r.startedAt >= r.call.atMost * 1000
        /\ r.latency > r.call.atMost * 1000

\* A number outside lo..hi
OutsideRange(v, lo, hi) == v.type = "number" /\ (v.value < lo \/ v.value > hi)

\* An arguments object that is not of the tool's shape: a required string
\* missing or not a string, or a level or timeout that is not an integer.
Malformed(a) ==
  \/ a.dataType.type # "string"
  \/ a.data.type # "string"
  \/ \E f \in {"tlp", "pap", "timeout"} :
       a[f].type \notin {"undefined", "number"} \/ (a[f].type = "number" /\ ~a[f].integer)

Rejectable(a) ==
  \/ OutsideRange(a.tlp, 0, 3)
  \/ OutsideRange(a.pap, 0, 3)
  \/ OutsideRange(a.timeout, 1, 3600)
  \/ Malformed(a)

\* The value the handler has for an argument: the one sent, or the default.
Given(v, default) == IF v.type = "undefined" THEN default ELSE v.value

\* C15: arguments with tlp or pap outside 0..3, timeout outside 1..3600, or
\* otherwise malformed are answered with an error while no client call has
\* been issued; all other arguments reach the handler with omitted tlp, pap
\* and timeout replaced by 2, 2 and 300, and the calls carry those values.
C15_ValidationFirst ==
  args # NoArguments =>
    /\ Rejectable(args) =>
         (pc = "Invalid" /\ calls = <<>> /\ response.returned /\ response.isError)
    /\ ~Rejectable(args) =>
         /\ pc # "Invalid"
         /\ req.tlp = Given(args.tlp, 2)
         /\ req.pap = Given(args.pap, 2)
         /\ req.timeout = Given(args.timeout, 300)
         /\ \A c \in DOMAIN calls :
              /\ calls[c].op = "runAnalyzer" =>
                   (calls[c].body.tlp = Given(args.tlp, 2) /\
                    calls[c].body.pap = Given(args.pap, 2))
              /\ calls[c].op = "waitAndGetReport" =>
                   calls[c].timeoutSeconds = Given(args.timeout, 300)

\* A timeout of 3601 is answered with an error with the analyzers untouched.
C15_Witness ==
  /\ pc = "Invalid"
  /\ args.timeout = Number(3601)
  /\ args.tlp.type = "undefined"
  /\ Len(directory) >= 1
  /\ calls = <<>>
  /\ response.isError

\* The messages client.ts gives to the statuses it names
FixedMessages ==
  (401 :> "Invalid API key or unauthorized access") @@
  (403 :> "Forbidden - insufficient permissions") @@
  (404 :> "Resource not found") @@
  (429 :> "Rate limit exceeded") @@
  (500 :> "Cortex internal server error")

\* The requests whose response head arrived with a status outside 200..299
NonOk == { i \in DOMAIN requests :
             requests[i].http # NoHttp /\
             (requests[i].http.status < 200 \/ requests[i].http.status > 299) }

\* The message the claim gives for a response and the body to append
MessageFor(http, body) ==
  <<"Cortex API error: ">>
    \o (IF http.status \in DOMAIN FixedMessages THEN <<FixedMessages[http.status]>>
        ELSE <<"HTTP ", ToString(http.status), ": ", http.statusText>>)
    \o (IF body # "" THEN <<" - ", body>> ELSE <<>>)

\* C17 as stated: a non-2xx response never yields a value, and the call is
\* rejected with the status' message followed by the response body whenever
\* that body is not empty.
C17_StatusMapping ==
  \A i \in NonOk :
    /\ requests[i].outcome.status # "fulfilled"
    /\ requests[i].phase = "settled" =>
         /\ requests[i].outcome.status = "rejected"
         /\ requests[i].outcome.reason.message =
              MessageFor(requests[i].http, requests[i].http.body)

\* C17 amended: the body is appended when response.text() yielded it; when
\* reading it failed, or the request timer aborted the read, the message
\* ends after the status' text.
C17_StatusMappingBodyRead ==
  \A i \in NonOk :
    /\ requests[i].outcome.status # "fulfilled"
    /\ requests[i].phase = "settled" =>
         /\ requests[i].outcome.status = "rejected"
         /\ requests[i].text.status \in {"fulfilled", "rejected"}
         /\ requests[i].text.status = "fulfilled" =>
              /\ requests[i].text.value = requests[i].http.body
              /\ requests[i].outcome.reason.message =
                   MessageFor(requests[i].http, requests[i].http.body)
         /\ requests[i].text.status = "rejected" =>
              requests[i].outcome.reason.message = MessageFor(requests[i].http, "")

\* A 404 whose body "details" is cut off by the request timer: the call is
\* rejected with the status' text alone.
C17_Witness ==
  \E i \in NonOk :
    /\ requests[i].phase = "settled"
    /\ requests[i].http.status = 404
    /\ requests[i].http.body = "details"
    /\ requests[i].text = Rejected([name |-> "AbortError"])
    /\ requests[i].outcome.reason.message = <<"Cortex API error: ", "Resource not found">>

\* A handler has returned: the bulk handler, or one of the other eleven.
BulkReturned == pc \in {"NoProviders", "Done", "Fatal"}
ToolReturned == pc = "Returned"

CallRejected(c) == calls[c].outcome.status = "rejected"

\* The response is error-flagged and its text holds the message of call c.
FlaggedWith(c) ==
  /\ response.isError
  /\ response.text.kind = "Error"
  /\ response.text.message = calls[c].outcome.reason.message

\* Call c fulfilled with the JSON payload null.
FulfilledNull(c) ==
  /\ calls[c].outcome.status = "fulfilled"
  /\ calls[c].op # "listAnalyzers" \/ ToolReturned
  /\ IsNull(calls[c].outcome.value)

\* C16 as stated: a handler that has returned did not throw; if any client
\* call it made rejected, the response is error-flagged with that rejection's
\* message; and the response is error-flagged only if a client call rejected
\* or cortex_run_analyzer_by_name found no analyzer.
C16_GracefulFailure ==
  (BulkReturned \/ ToolReturned) =>
    /\ response.returned
    /\ \A c \in DOMAIN calls : CallRejected(c) => FlaggedWith(c)
    /\ response.isError =>
         \/ \E c \in DOMAIN calls : CallRejected(c)
         \/ ToolReturned /\ req.tool = "cortex_run_analyzer_by_name"
              /\ response.text.kind = "NoAnalyzerFound"

\* C16 amended: no handler throws.  A rejected call of the eleven
\* single-purpose tools, and a rejected listAnalyzers call of the bulk tool,
\* gives an error-flagged response with the tool's prefix and the rejection's
\* message.  Rejected runAnalyzer and waitAndGetReport calls of the bulk tool
\* are not flagged: in the report they appear as a submission error or as an
\* "Error" result with the message.  A response is error-flagged only for a
\* rejected call, for a fulfilled payload of null that the handler reads, or
\* for cortex_run_analyzer_by_name finding no analyzer.
C16_GracefulFailureAwaited ==
  /\ ToolReturned =>
       /\ response.returned
       /\ \A c \in DOMAIN calls :
            CallRejected(c) => (FlaggedWith(c) /\ response.text.prefix = Tools[req.tool].prefix)
       /\ response.isError =>
            \/ \E c \in DOMAIN calls : CallRejected(c)
            \/ \E c \in DOMAIN calls :
                 FulfilledNull(c) /\ Tools[req.tool].reads /\ response.text.kind = "Error"
            \/ req.tool = "cortex_run_analyzer_by_name"
                 /\ response.text.kind = "NoAnalyzerFound"
  /\ BulkReturned =>
       /\ response.returned
       /\ CallRejected(1) =>
            (FlaggedWith(1) /\ response.text.prefix = "Error analyzing observable: ")
       /\ response.isError =>
            \/ CallRejected(1)
            \/ \E c \in DOMAIN calls : FulfilledNull(c) /\ response.text.kind = "Error"
       /\ pc = "Done" =>
            /\ ~response.isError
            /\ \A c \in DOMAIN calls :
                 (CallRejected(c) /\ calls[c].op = "runAnalyzer") =>
                   \E k \in DOMAIN TheReport.submissionErrors :
                     TheReport.submissionErrors[k].error = calls[c].outcome.reason.message
            /\ \A c \in DOMAIN calls :
                 (CallRejected(c) /\ calls[c].op = "waitAndGetReport") =>
                   \E k \in DOMAIN TheReport.results :
                     /\ TheReport.results[k].status = "Error"
                     /\ TheReport.results[k].taxonomies =
                          <<<<"Error: ", calls[c].outcome.reason.message>>>>

\* cortex_wait_and_get_report whose wait was rejected with the timeout error
C16_Witness ==
  /\ ToolReturned
  /\ req.tool = "cortex_wait_and_get_report"
  /\ CallRejected(1)
  /\ response.isError
  /\ response.text.prefix = "Error waiting for report: "
  /\ response.text.message = "Cortex API timeout after 30000ms"

Lower(ch) == IF ch \in DOMAIN UpperToLower THEN UpperToLower[ch] ELSE ch

\* part occurs in name at some offset, letter case aside
ContainsIgnoringCase(name, part) ==
  LET chars == Spell(name)
  IN  \E k \in 0..Len(chars) :
        /\ k + Len(part) <= Len(chars)
        /\ \A j \in 1..Len(part) : Lower(chars[k + j]) = Lower(part[j])

\* The positions in the directory of the analyzers that satisfy both conditions
Qualifying ==
  { i \in DOMAIN directory :
      /\ ContainsIgnoringCase(directory[i].name, req.analyzerName)
      /\ \E t \in DOMAIN directory[i].dataTypeList :
           directory[i].dataTypeList[t] = req.dataType.value }

ByName == pc \in {"Awaiting", "Returned"} /\ req.tool = "cortex_run_analyzer_by_name"

\* The handler has the analyzer list.
ListSeen == calls[1].outcome.status = "fulfilled" /\ ~IsNull(calls[1].outcome.value)

RunsIssued == { c \in DOMAIN calls : calls[c].op = "runAnalyzer" }

\* C18: cortex_run_analyzer_by_name issues at most one runAnalyzer call; once
\* it has the list, it issues exactly one if some analyzer contains
\* analyzerName (case-insensitively) and supports dataType, for the id of the
\* first such analyzer in directory order; if none does, it issues no
\* runAnalyzer call and returns the error-flagged "No analyzer found" text.
C18_FirstMatchByName ==
  ByName =>
    /\ Cardinality(RunsIssued) <= 1
    /\ \A c \in RunsIssued :
         /\ ListSeen
         /\ Qualifying # {}
         /\ calls[c].analyzerId =
              directory[CHOOSE i \in Qualifying : \A j \in Qualifying : i <= j].id
         /\ calls[c].body = [data |-> req.data, dataType |-> req.dataType.value,
                             tlp |-> req.tlp, pap |-> req.pap]
    /\ (ListSeen /\ Qualifying # {}) => Cardinality(RunsIssued) = 1
    /\ (ListSeen /\ Qualifying = {}) =>
         /\ RunsIssued = {}
         /\ pc = "Returned"
         /\ response.isError
         /\ response.text.kind = "NoAnalyzerFound"

\* "a" with dataType url on AbuseIPDB, URLhaus, VirusTotal_GetReport: the
\* first name holds an a but not the type; the job goes to URLhaus.
C18_Witness ==
  /\ pc = "Returned"
  /\ req.tool = "cortex_run_analyzer_by_name"
  /\ req.analyzerName = <<"a">>
  /\ req.dataType.value = "url"
  /\ Len(directory) = 3
  /\ directory[1].name = "AbuseIPDB"
  /\ directory[2].name = "URLhaus"
  /\ directory[3].name = "VirusTotal_GetReport"
  /\ Len(calls) = 2
  /\ calls[2].analyzerId = "URLhaus_2_0"
  /\ ~response.isError
  /\ response.text.value.analyzerUsed.name = "URLhaus"

\* A list tool has returned after its call fulfilled with a list.
Listed ==
  /\ pc = "Returned"
  /\ req.tool \in ListTools
  /\ calls[1].outcome.status = "fulfilled"
  /\ ~IsNull(calls[1].outcome.value)

\* The list the server sent
Sent == calls[1].outcome.value.items

\* The positions of the entries whose dataTypeList contains dataType
Kept(dataType) ==
  { i \in DOMAIN Sent :
      \E t \in DOMAIN Sent[i].dataTypeList : Sent[i].dataTypeList[t] = dataType }

\* The response lists exactly the entries at the positions K, in their order.
Returns(K) ==
  /\ ~response.isError
  /\ response.text.kind = "Json"
  /\ Len(response.text.value) = Cardinality(K)
  /\ \A i \in K :
       LET n == Cardinality({j \in K : j <= i})
       IN  /\ response.text.value[n].id = Sent[i].id
           /\ response.text.value[n].name = Sent[i].name
           /\ response.text.value[n].dataTypes = Sent[i].dataTypeList

\* C19 as stated: with a dataType the list tools return exactly the entries
\* whose dataTypeList contains it, in their original order (none is an empty
\* list, not an error); without a dataType they return every entry.
C19_ListFilter ==
  Listed =>
    IF req.dataType.type = "string"
    THEN Returns(Kept(req.dataType.value))
    ELSE Returns(DOMAIN Sent)

\* C19 amended: the filter applies for a non-empty dataType; an empty string
\* is treated like an omitted dataType and every entry is returned.
C19_ListFilterNonEmpty ==
  Listed =>
    IF req.dataType.type = "string" /\ req.dataType.value # ""
    THEN Returns(Kept(req.dataType.value))
    ELSE Returns(DOMAIN Sent)

\* cortex_list_analyzers with dataType "ip" on URLhaus, AbuseIPDB,
\* VirusTotal_GetReport returns AbuseIPDB and VirusTotal_GetReport.
C19_Witness ==
  /\ Listed
  /\ req.tool = "cortex_list_analyzers"
  /\ req.dataType = Text("ip")
  /\ Len(Sent) = 3
  /\ Sent[1].name = "URLhaus"
  /\ Sent[2].name = "AbuseIPDB"
  /\ Len(response.text.value) = 2
  /\ response.text.value[1].name = "AbuseIPDB"
  /\ response.text.value[2].name = "VirusTotal_GetReport"

\* C20: verifySsl is false exactly when CORTEX_VERIFY_SSL is "false", and the
\* requests of a client configured with verifySsl = false are issued with
\* certificate verification disabled, those of verifySsl = true with it on.
C20_VerifySslHonoured ==
  boot = "Ready" =>
    /\ config.verifySsl = (env.CORTEX_VERIFY_SSL # Str(<<"false">>))
    /\ \A i \in DOMAIN requests :
         requests[i].options.verifiesCertificate = config.verifySsl

\* The variable is unset or holds the empty string.
Missing(v) == ~v.set \/ Len(v.value) = 0

\* short is long without its trailing slashes.
WithoutTrailingSlashes(short, long) ==
  /\ Len(short) <= Len(long)
  /\ short = SubSeq(long, 1, Len(short))
  /\ \A i \in (Len(short) + 1)..Len(long) : long[i] = "/"
  /\ Len(short) = 0 \/ short[Len(short)] # "/"

\* C21: once getConfig has run, a missing CORTEX_URL has thrown the CORTEX_URL
\* error, else a missing CORTEX_API_KEY has thrown the CORTEX_API_KEY error,
\* and in both cases no client exists and no request is ever issued;
\* otherwise the configuration has CORTEX_URL without its trailing slashes
\* and CORTEX_API_KEY unchanged.
C21_RequiredVariables ==
  boot # "Starting" =>
    IF Missing(env.CORTEX_URL)
    THEN /\ boot = "Failed"
         /\ config.threw
         /\ config.message = "CORTEX_URL environment variable is required"
         /\ client = NoClient
         /\ requests = <<>>
    ELSE IF Missing(env.CORTEX_API_KEY)
    THEN /\ boot = "Failed"
         /\ config.threw
         /\ config.message = "CORTEX_API_KEY environment variable is required"
         /\ client = NoClient
         /\ requests = <<>>
    ELSE /\ boot = "Ready"
         /\ ~config.threw
         /\ WithoutTrailingSlashes(config.url, env.CORTEX_URL.value)
         /\ config.apiKey = env.CORTEX_API_KEY.value
         /\ client # NoClient

\* https://cortex.example.com:9001// is configured without the two slashes.
C21_Witness ==
  /\ boot = "Ready"
  /\ env.CORTEX_URL.value = <<BaseUrl, "/", "/">>
  /\ config.url = <<BaseUrl>>
  /\ config.apiKey = <<"test-api-key-123">>
  /\ client.baseUrl = <<BaseUrl, "/api">>

\* The delay the request's timer was armed with: the configured timeout
\* whenever that is a positive number of milliseconds.
Deadline == TimerDelay(client.timeout)

\* Every settled call settled within the deadline of its own start.
SettledInTime ==
  \A i \in DOMAIN requests :
    requests[i].phase = "settled" =>
      requests[i].settledAt - requests[i].startedAt <= Deadline

\* The expiry of call i's timer rejects call i with the timeout error and
\* leaves every other call as it was.
ExpiryIsOwn ==
  \A i \in DOMAIN requests :
    Expire(i) =>
      /\ TimedOut(requests'[i])
      /\ \A j \in DOMAIN requests \ {i} : requests'[j] = requests[j]

\* C22: every call of CortexClient.request settles no later than the
\* timeout after its own start, the expiry of its timer rejects it with
\* "Cortex API timeout after <timeout>ms", and that expiry changes no other
\* call in flight.
C22_PerCallDeadline == []SettledInTime /\ [][ExpiryIsOwn]_vars

\* Every logged call of the operation has settled.
AllCallsSettled(op) ==
  \A c \in DOMAIN calls : calls[c].op = op => calls[c].outcome # Pending

\* C23: a waitAndGetReport call exists, and the handler is past Submitting,
\* only when every runAnalyzer call of the invocation has settled; the
\* handler aggregates or holds its report only when every waitAndGetReport
\* call has settled.
C23_StageBarriers ==
  /\ (WaitCallsLog # <<>> \/ pc \in {"Collecting", "Aggregating", "Done"}) =>
       AllCallsSettled("runAnalyzer")
  /\ (pc \in {"Aggregating", "Done", "Fatal"} \/ response # NoResponse) =>
       AllCallsSettled("waitAndGetReport")

\* Three submissions settled out of order, one of them rejected, and the
\* two waits started only afterwards, the report built after both.
C23_Witness ==
  /\ pc = "Done"
  /\ outOfOrder
  /\ Len(RunCallsLog) = 3
  /\ Len(WaitCallsLog) = 2
  /\ \E i \in DOMAIN RunCallsLog : RunCallsLog[i].outcome.status = "rejected"
  /\ \E i \in DOMAIN WaitCallsLog : WaitCallsLog[i].outcome.status = "rejected"

\* The taxonomy list of a waitreport payload: absent report, summary or
\* taxonomies count as no taxonomies.
ListedTaxonomies(payload) ==
  IF "report" \notin DOMAIN payload THEN <<>>
  ELSE IF "summary" \notin DOMAIN payload.report THEN <<>>
  ELSE IF "taxonomies" \notin DOMAIN payload.report.summary THEN <<>>
  ELSE payload.report.summary.taxonomies

\* C24: in a report, the entry of a submitted analyzer whose wait fulfilled
\* has the analyzer's name, the report's own status and one text
\* "[level] namespace:predicate = value" per taxonomy, in order (none when
\* report, summary or taxonomies are absent); the entry of one whose wait
\* rejected has the analyzer's name, status "Error" and the single text
\* "Error: <failure message>".
C24_EntryShape ==
  pc = "Done" =>
    \A i \in DOMAIN FulfilledRuns :
      LET w == WaitsFor(JobOf(FulfilledRuns[i]))[1]
          entry == TheReport.results[i]
      IN  /\ DOMAIN entry = {"analyzer", "status", "taxonomies"}
          /\ entry.analyzer = NameOfCall(FulfilledRuns[i])
          /\ IF w.outcome.status = "fulfilled"
             THEN LET taxes == ListedTaxonomies(w.outcome.value)
                  IN  /\ entry.status = w.outcome.value.status
                      /\ Len(entry.taxonomies) = Len(taxes)
                      /\ \A n \in DOMAIN taxes :
                           entry.taxonomies[n] =
                             <<"[", taxes[n].level, "] ", taxes[n].namespace, ":",
                               taxes[n].predicate, " = ", taxes[n].value>>
             ELSE /\ entry.status = "Error"
                  /\ entry.taxonomies = <<<<"Error: ", w.outcome.reason.message>>>>

\* A report with a two-taxonomy entry, an entry of a payload without summary
\* and an entry of a failed wait.
C24_Witness ==
  /\ pc = "Done"
  /\ Len(TheReport.results) = 3
  /\ \E i, j, k \in DOMAIN TheReport.results :
       /\ Len(TheReport.results[i].taxonomies) = 2
       /\ TheReport.results[i].status = "Success"
       /\ WaitCallsLog[j].outcome.status = "fulfilled"
       /\ "report" \in DOMAIN WaitCallsLog[j].outcome.value
       /\ "summary" \notin DOMAIN WaitCallsLog[j].outcome.value.report
       /\ TheReport.results[j].taxonomies = <<>>
       /\ WaitCallsLog[k].outcome.status = "rejected"
       /\ TheReport.results[k].status = "Error"

ListCallsLog == SelectSeq(calls, LAMBDA x : x.op = "listAnalyzers")

\* The handler is running or has ended.
Invoked == pc \in {"Resolving", "Submitting", "Collecting", "Aggregating",
                   "NoProviders", "Done", "Fatal"}

\* C25: every invocation makes exactly one listAnalyzers call, which returns
\* the analyzers enabled at that time, and its applicable set is the filter
\* of that call's result, whatever an earlier invocation listed or found;
\* between invocations the handler holds nothing.
C25_FreshCapabilities ==
  /\ Invoked =>
       /\ Len(ListCallsLog) = 1
       /\ calls[1].op = "listAnalyzers"
       /\ ListHasFulfilled =>
            /\ ListReturned = directory
            /\ applicable = Supporting
  /\ pc = "Idle" =>
       /\ calls = <<>>
       /\ applicable = <<>>
       /\ req = NoRequest
       /\ response = NoResponse

\* A hash invocation found no analyzer; VirusTotal_GetReport was then
\* enabled, and the next hash invocation submitted to it.
C25_Witness ==
  /\ earlier.returned
  /\ earlier.ended = "NoProviders"
  /\ earlier.dataType = "hash"
  /\ earlier.changed
  /\ pc = "Done"
  /\ req.dataType = "hash"
  /\ Len(applicable) = 1
  /\ applicable[1].name = "VirusTotal_GetReport"
  /\ TheReport.analyzersRun = 1

\* The characters of a data type
TypeChars(dataType) ==
  CASE dataType = "ip" -> <<"i", "p">>
    [] dataType = "IP" -> <<"I", "P">>
    [] dataType = "hash" -> <<"h", "a", "s", "h">>
    [] OTHER -> <<"r", "e", "g", "i", "s", "t", "r", "y">>

\* The analyzer's name contains the data type, case ignored: the kind of
\* match cortex_run_analyzer_by_name applies to analyzer names.
NameContains(a, dataType) ==
  StringIncludes(ToLowerCase(Spell(a.name)), ToLowerCase(TypeChars(dataType)))

\* The analyzer declares the data type as an element of its dataTypeList.
Declares(a, dataType) == \E k \in DOMAIN a.dataTypeList : a.dataTypeList[k] = dataType

\* The positions of the listed analyzers that declare the data type
DeclaringPositions ==
  { i \in DOMAIN ListReturned : Declares(ListReturned[i], req.dataType) }

\* C26: once the list has arrived, applicable holds exactly the listed
\* analyzers that declare the requested dataType as an element, each once and
\* in list order, whether or not an analyzer's name contains the dataType.
C26_ExactMembership ==
  (Invoked /\ ListHasFulfilled) =>
    /\ Len(applicable) = Cardinality(DeclaringPositions)
    /\ \A k \in DOMAIN applicable :
         \E i \in DeclaringPositions :
           /\ applicable[k] = ListReturned[i]
           /\ Cardinality({ j \in DeclaringPositions : j < i }) = k - 1

\* For dataType "IP" no analyzer is applicable although AbuseIPDB, whose
\* name contains it, is listed.
C26_Witness ==
  /\ pc = "NoProviders"
  /\ req.dataType = "IP"
  /\ applicable = <<>>
  /\ \E i \in DOMAIN ListReturned :
       /\ ListReturned[i].name = "AbuseIPDB"
       /\ NameContains(ListReturned[i], req.dataType)
       /\ Declares(ListReturned[i], "ip")

\* The level the caller sent, or the schema's default 2
LevelSent(v) == IF v = Absent THEN 2 ELSE v.value

\* The submissions have been issued.
SubmissionsIssued == pc \in {"Submitting", "Collecting", "Aggregating", "Done"}
                       \/ (pc = "Fatal" /\ ListHasFulfilled)

\* C27: once the submissions are issued, every listed analyzer declaring the
\* dataType has its runAnalyzer call, whatever its maxTlp and maxPap, there
\* is no other runAnalyzer call, and every call's body is the data, dataType,
\* tlp and pap of the tool call.
C27_NoLevelFiltering ==
  SubmissionsIssued =>
    /\ Len(RunCallsLog) = Cardinality(DeclaringPositions)
    /\ \A i \in DeclaringPositions :
         \E k \in DOMAIN RunCallsLog : RunCallsLog[k].analyzerId = ListReturned[i].id
    /\ \A k \in DOMAIN RunCallsLog :
         RunCallsLog[k].body =
           [data |-> args.data.value, dataType |-> args.dataType.value,
            tlp |-> LevelSent(args.tlp), pap |-> LevelSent(args.pap)]

\* AbuseIPDB, whose maxTlp and maxPap are 1, was sent an observable of
\* TLP 2 and PAP 2 along with the other applicable analyzers.
C27_Witness ==
  /\ pc = "Done"
  /\ Len(RunCallsLog) = 3
  /\ \E k \in DOMAIN RunCallsLog :
       /\ RunCallsLog[k].analyzerId = "AbuseIPDB_1_0"
       /\ RunCallsLog[k].body.tlp = 2
       /\ RunCallsLog[k].body.pap = 2
       /\ RunCallsLog[k].outcome.status = "fulfilled"
  /\ \E i \in DOMAIN ListReturned :
       ListReturned[i].id = "AbuseIPDB_1_0" /\ ListReturned[i].maxTlp = 1

\* Submissions were issued and every one of them was rejected.
AllSubmissionsRejected ==
  /\ RunCallsLog # <<>>
  /\ \A k \in DOMAIN RunCallsLog : RunCallsLog[k].outcome.status = "rejected"

\* C28: when every submission of a non-empty applicable set was rejected, no
\* waitAndGetReport call is made, the handler does not end in Fatal, and its
\* report is not an error: analyzersRun is 0, analyzersFailed is the number
\* of applicable analyzers, results is empty, every category count is 0 and
\* submissionErrors has one entry per applicable analyzer, in order, with
\* that analyzer's name and its submission's message.
C28_AllSubmissionsRejected ==
  AllSubmissionsRejected =>
    /\ WaitCallsLog = <<>>
    /\ pc \in {"Submitting", "Collecting", "Aggregating", "Done"}
    /\ pc = "Done" =>
         /\ ~response.isError
         /\ TheReport.analyzersRun = 0
         /\ TheReport.analyzersFailed = Len(Supporting)
         /\ TheReport.results = <<>>
         /\ \A level \in Levels : TheReport.summary[level] = 0
         /\ "submissionErrors" \in DOMAIN TheReport
         /\ Len(TheReport.submissionErrors) = Len(Supporting)
         /\ \A k \in DOMAIN Supporting :
              /\ TheReport.submissionErrors[k].analyzer = Supporting[k].name
              /\ TheReport.submissionErrors[k].error =
                   RunCallsLog[k].outcome.reason.message

\* Three applicable analyzers, all three submissions rejected, settled out
\* of order and not all for the same reason; the report is out.
C28_Witness ==
  /\ pc = "Done"
  /\ AllSubmissionsRejected
  /\ Len(RunCallsLog) = 3
  /\ outOfOrder
  /\ RunCallsLog[1].outcome.reason # RunCallsLog[2].outcome.reason
  /\ TheReport.analyzersFailed = 3
  /\ TheReport.analyzersRun = 0

\* The moves of the handler's position
Moves ==
  { <<"Idle", "Resolving">>, <<"Idle", "Invalid">>,
    <<"Resolving", "NoProviders">>, <<"Resolving", "Submitting">>,
    <<"Resolving", "Fatal">>, <<"Submitting", "Collecting">>,
    <<"Collecting", "Aggregating">>, <<"Aggregating", "Done">>,
    <<"Aggregating", "Fatal">>, <<"NoProviders", "Idle">>, <<"Done", "Idle">>,
    <<"Fatal", "Idle">>, <<"Invalid", "Idle">> }

Running == pc \in {"Resolving", "Submitting", "Collecting", "Aggregating"}
Ended == pc \in {"NoProviders", "Done", "Fatal"}

\* The position moves along Moves only, and a response, once there, stays
\* the same until the handler has returned.
InOrder ==
  /\ pc' # pc => <<pc, pc'>> \in Moves
  /\ response # NoResponse => (response' = response \/ pc' = "Idle")

\* A running handler has no response yet, an ended one has its response.
OneResponse ==
  /\ Running => response = NoResponse
  /\ Ended => response.returned

\* C29: when every client call settles in the end, every invocation reaches
\* one of NoProviders, Done and Fatal, with exactly one response, and its
\* position only moves from Resolving through Submitting, Collecting and
\* Aggregating in that order.
C29_Termination ==
  /\ [][InOrder]_vars
  /\ []OneResponse
  /\ Running ~> Ended
  /\ Ended ~> (pc = "Idle")

\* An invocation with three submissions and three waits, settled out of
\* order and some of them rejected, has ended with its report.
C29_Witness ==
  /\ pc = "Done"
  /\ response.returned
  /\ Len(calls) = 6
  /\ \A c \in DOMAIN calls : calls[c].outcome # Pending
  /\ SomeRunRejected
  /\ SomeWaitRejected
  /\ outOfOrder

\* The request was aborted by its timer within a millisecond of its start.
AbortedAtOnce(r) == TimedOut(r) /\ r.settledAt - r.startedAt <= 1

\* C30: under every configuration getConfig accepts, the client's timeout
\* is a positive number of milliseconds, 30000 when CORTEX_TIMEOUT is unset,
\* every request's timer is armed with it, and no request is aborted at once.
C30_PositiveTimeout ==
  boot = "Ready" =>
    /\ ~client.timeout.nan
    /\ client.timeout.value > 0
    /\ ~env.CORTEX_TIMEOUT.set => client.timeout.value = 30000
    /\ \A i \in DOMAIN requests :
         /\ requests[i].timerAt - requests[i].startedAt = client.timeout.value
         /\ ~AbortedAtOnce(requests[i])
====
